---- MODULE Spec2Model ----
(***************************************************************************)
(* A model of the s-expression <-> dataclass mapping engine of edea:       *)
(* the tokenizer and printer (kicad/parser.py, types/serializer.py), the   *)
(* number renderer (types/number.py), the encoder and decoder of           *)
(* KicadExpr (kicad/base.py, with the older variant of types/base.py where *)
(* the two differ), the tag dispatch of kicad/parser.py and the record     *)
(* types of kicad/common.py.                                               *)
(*                                                                         *)
(* Text and atoms are TLA+ strings, read one character at a time with      *)
(* SubSeq.  A Python exception is a result record with ok = FALSE and the  *)
(* exception class in err.                                                 *)
(***************************************************************************)
EXTENDS Integers, Sequences, FiniteSets, TLC

VARIABLES pc, cls, inst, expr, text, res, env, annotation,
          files, original_text, before, self, that

\* the files of a project, the objects of the checker, of the design rules
\* and of the schematic group
world == <<files, original_text, before, self, that>>

\* the objects of the record engine
engine == <<cls, inst, expr, text, env, annotation>>

vars == <<pc, cls, inst, expr, text, res, env, annotation, world>>

(***************************************************************************)
(* Bounds of the model.                                                    *)
(***************************************************************************)
\* longest text handed to the tokenizer directly
MaxTextLen == 5
\* most elements after the tag in a generated expression tree
MaxTreeLen == 2

(***************************************************************************)
(* Characters.                                                             *)
(***************************************************************************)
Ch(s, i) == SubSeq(s, i, i)

DQ == "\""

BS == "\\"

\* Stands for U+2001 (EM QUAD), a character that Python's str.isspace() and
\* the regex class \s accept as white space; TLA+ strings hold ASCII only.
EmQuad == "~"

\* The characters of the model that the regex class \s matches.
IsSpace(c) == c \in {" ", "\t", "\n", "\r", "\f", EmQuad}

\* serializer._special_chars, restricted to the characters of the model:
\* space, parentheses, double quote, backslash and the ASCII control
\* characters.  U+2001 is not in the tuple.
SpecialChars == {" ", "(", ")", DQ, BS, "\t", "\n", "\r", "\f"}

HasCharIn(s, set) == \E i \in 1..Len(s) : Ch(s, i) \in set

(***************************************************************************)
(* Python lists.                                                           *)
(***************************************************************************)
\* the k-th smallest index of a set of indexes
Nth(S, k) == CHOOSE i \in S : Cardinality({j \in S : j <= i}) = k

Min(S) == CHOOSE i \in S : \A j \in S : i <= j

\* the number of the first test of a chain of if statements that holds
First(tests) == Min({k \in 1..Len(tests) : tests[k]})

\* the elements of a list at the indexes in S, in order
Pick(seq, S) == [k \in 1..Cardinality(S) |-> seq[Nth(S, k)]] \o <<>>

\* the list a comprehension builds, every element computed once
List(f) == f \o <<>>

\* the lists of a list joined into one, the list halved between the calls
RECURSIVE Concat(_)
Concat(ss) ==
    IF Len(ss) = 0 THEN <<>>
    ELSE IF Len(ss) = 1 THEN ss[1]
    ELSE LET h == Len(ss) \div 2 IN
         Concat(SubSeq(ss, 1, h)) \o Concat(SubSeq(ss, h + 1, Len(ss)))

\* str.replace(old, new) for a two-character old: left to right, matches
\* do not overlap.
RECURSIVE Replace2(_, _, _)
Replace2(s, old, new) ==
    IF Len(s) < 2 THEN s
    ELSE IF SubSeq(s, 1, 2) = old
         THEN new \o Replace2(SubSeq(s, 3, Len(s)), old, new)
         ELSE Ch(s, 1) \o Replace2(SubSeq(s, 2, Len(s)), old, new)

\* str.replace(old, new) for a one-character old.
RECURSIVE Replace1(_, _, _)
Replace1(s, old, new) ==
    IF Len(s) = 0 THEN s
    ELSE (IF Ch(s, 1) = old THEN new ELSE Ch(s, 1))
         \o Replace1(SubSeq(s, 2, Len(s)), old, new)

(***************************************************************************)
(* Expression trees (SExprList): a leaf is a str or a QuotedStr, a list    *)
(* holds leaves and lists.                                                 *)
(***************************************************************************)
A(s) == [t |-> "atom", s |-> s, q |-> FALSE, items |-> <<>>]

Q(s) == [t |-> "atom", s |-> s, q |-> TRUE, items |-> <<>>]

L(items) == [t |-> "list", s |-> "", q |-> FALSE, items |-> items]

IsList(n) == n.t = "list"

IsAtom(n) == n.t = "atom"

\* Python's == on expression trees: QuotedStr is a str subclass that adds
\* nothing, so a QuotedStr equals the str of the same content.
RECURSIVE Unquoted(_)
Unquoted(n) ==
    IF IsAtom(n) THEN A(n.s)
    ELSE L([i \in 1..Len(n.items) |-> Unquoted(n.items[i])])

TreeEq(a, b) == Unquoted(a) = Unquoted(b)

(***************************************************************************)
(* Results of operations that may raise.                                   *)
(***************************************************************************)
NoValue == [t |-> "none", s |-> "", q |-> FALSE, items |-> <<>>]

Ok(v) == [ok |-> TRUE, err |-> "", why |-> "", v |-> v]

Raise(e, why) == [ok |-> FALSE, err |-> e, why |-> why, v |-> NoValue]

(***************************************************************************)
(* Printer: serializer.from_list_to_str and _escape.                       *)
(***************************************************************************)
_escape(s) == Replace1(Replace1(s, BS, BS \o BS), DQ, BS \o DQ)

RECURSIVE from_list_to_str(_)
RECURSIVE JoinStr(_)
from_list_to_str(n) ==
    IF IsAtom(n)
    THEN IF n.s = "" THEN DQ \o DQ
         ELSE IF HasCharIn(n.s, SpecialChars) THEN DQ \o _escape(n.s) \o DQ
         ELSE n.s
    ELSE "(" \o JoinStr(n.items) \o ")"
\* " ".join(from_list_to_str(lst) for lst in expr)
JoinStr(items) ==
    IF Len(items) = 0 THEN ""
    ELSE IF Len(items) = 1 THEN from_list_to_str(items[1])
    ELSE LET h == Len(items) \div 2 IN
         JoinStr(SubSeq(items, 1, h)) \o " " \o JoinStr(SubSeq(items, h + 1, Len(items)))

(***************************************************************************)
(* Tokenizer: _TOKENIZE_EXPR.findall, _tokens_to_list, from_str_to_list.   *)
(***************************************************************************)
\* The first alternative of _TOKENIZE_EXPR, "[^"\\]*(?:\\.[^"\\]*)*", from
\* the character after the opening quote: the index of the closing quote,
\* or 0 when the alternative does not match ('.' does not match a newline).
\* A character at k is escaped when an odd number of backslashes runs up to
\* it from j.
Escaped(s, j, k) ==
    LET run == {m \in j..(k - 1) : \A h \in m..(k - 1) : Ch(s, h) = BS} IN
    Cardinality(run) % 2 = 1

QuotedEnd(s, j) ==
    LET ends == {k \in j..Len(s) : Ch(s, k) = DQ /\ ~Escaped(s, j, k)} IN
    IF ends = {} THEN 0
    ELSE LET e == CHOOSE k \in ends : \A h \in ends : k <= h IN
         IF \E k \in j..e : Ch(s, k) = "\n" /\ Escaped(s, j, k) THEN 0 ELSE e

\* The last alternative, [^\s()"]+, from index j: the index of its last
\* character.
Stops(s, k) == IsSpace(Ch(s, k)) \/ Ch(s, k) \in {"(", ")", DQ}

BareEnd(s, j) ==
    CHOOSE k \in j..Len(s) :
        /\ k = Len(s) \/ Stops(s, k + 1)
        /\ \A h \in (j + 1)..k : ~Stops(s, h)

\* One match of _TOKENIZE_EXPR at or after index i: the token, and the index
\* the search goes on from.
Match(s, i) ==
    LET b == CHOOSE k \in i..(Len(s) + 1) :
                 /\ k = Len(s) + 1 \/ ~IsSpace(Ch(s, k))
                 /\ \A h \in i..(k - 1) : IsSpace(Ch(s, h))
        c == Ch(s, b)
        e == IF c = DQ THEN QuotedEnd(s, b + 1)
             ELSE IF c \in {"(", ")"} THEN b
             ELSE BareEnd(s, b)
    IN IF b > Len(s) THEN [toks |-> <<>>, next |-> b]
       ELSE IF e > 0 THEN [toks |-> <<SubSeq(s, b, e)>>, next |-> e + 1]
       ELSE [toks |-> <<DQ>>, next |-> b + 1]

\* The next n matches from index i, the text halved between the two calls.
RECURSIVE Matches(_, _, _)
Matches(s, i, n) ==
    IF i > Len(s) THEN [toks |-> <<>>, next |-> i]
    ELSE IF n = 1 THEN Match(s, i)
    ELSE LET a == Matches(s, i, n \div 2)
             b == Matches(s, a.next, n - n \div 2)
         IN [toks |-> a.toks \o b.toks, next |-> b.next]

\* _TOKENIZE_EXPR.findall(text) from index i: a text has at most Len(s)
\* matches.
FindAll(s, i) == Matches(s, i, Len(s)).toks

\* token.removeprefix('"').removesuffix('"')
StripQuotes(tok) ==
    LET a == IF Len(tok) > 0 /\ Ch(tok, 1) = DQ
             THEN SubSeq(tok, 2, Len(tok)) ELSE tok
    IN IF Len(a) > 0 /\ Ch(a, Len(a)) = DQ THEN SubSeq(a, 1, Len(a) - 1) ELSE a

\* The leaf a token that is neither "(" nor ")" becomes.
TokenLeaf(tok) ==
    IF Ch(tok, 1) = DQ /\ Ch(tok, Len(tok)) = DQ
    THEN Q(Replace2(Replace2(StripQuotes(tok), BS \o BS, BS), BS \o DQ, DQ))
    ELSE A(tok)

\* _tokens_to_list(tokens, index); p is index + 1.  The result carries the
\* next index in idx.  A tokens[index] past the end raises IndexError.
RECURSIVE _tokens_to_list(_, _)
RECURSIVE TokensLoop(_, _, _)
_tokens_to_list(toks, p) ==
    IF Len(toks) = p - 1 THEN [r |-> Raise("EOFError", "unexpected EOF"), idx |-> p]
    ELSE LET token == toks[p] IN
         IF token = "("
         THEN IF p + 1 > Len(toks)
              THEN [r |-> Raise("IndexError", "tokens[index]"), idx |-> p + 1]
              ELSE LET body == TokensLoop(toks, p + 2, Len(toks) + 1) IN
                   IF body.st = "closed"
                   THEN [r |-> Ok(L(<<A(toks[p + 1])>> \o body.items)), idx |-> body.idx]
                   ELSE [r |-> body.r, idx |-> body.idx]
         ELSE IF token = ")"
         THEN [r |-> Raise("SyntaxError", "unexpected )"), idx |-> p + 1]
         ELSE [r |-> Ok(TokenLeaf(token)), idx |-> p + 1]
\* while tokens[index] != ")": index, sub_expr = ...; expr.append(sub_expr)
\* At most n rounds of the loop from index p, halved between the two calls:
\* st is "closed" when the loop met ")", "raised" when it raised, and "more"
\* when the n rounds were made; items are the appended sub-expressions.
TokensLoop(toks, p, n) ==
    IF p > Len(toks)
    THEN [st |-> "raised", items |-> <<>>, idx |-> p,
          r |-> Raise("IndexError", "tokens[index]")]
    ELSE IF toks[p] = ")"
    THEN [st |-> "closed", items |-> <<>>, idx |-> p + 1, r |-> Ok(NoValue)]
    ELSE IF n = 1
    THEN LET sub == _tokens_to_list(toks, p) IN
         IF sub.r.ok
         THEN [st |-> "more", items |-> <<sub.r.v>>, idx |-> sub.idx, r |-> Ok(NoValue)]
         ELSE [st |-> "raised", items |-> <<>>, idx |-> sub.idx, r |-> sub.r]
    ELSE LET a == TokensLoop(toks, p, n \div 2) IN
         IF a.st # "more" THEN a
         ELSE LET b == TokensLoop(toks, a.idx, n - n \div 2) IN
              [st |-> b.st, items |-> a.items \o b.items, idx |-> b.idx, r |-> b.r]

from_str_to_list(s) ==
    LET got == _tokens_to_list(FindAll(s, 1), 1).r IN
    IF ~got.ok THEN got
    ELSE IF IsAtom(got.v)
         THEN Raise("ValueError", "Expected an expression but only got a string")
    ELSE got

(***************************************************************************)
(* Inputs of the text layer.                                               *)
(***************************************************************************)
SeqsUpTo(S, n) == UNION {[1..k -> S] : k \in 0..n}

\* Leaf contents: plain words, numbers, the empty string, and strings with
\* a space, parentheses, quotes, backslashes and U+2001.
LeafStrings ==
    {"a", "1.5", "", "a b", "(", ")", DQ, BS, BS \o DQ, "a" \o BS, BS \o BS,
     "x" \o EmQuad \o "y"}

LeafNodes == {A(s) : s \in LeafStrings} \cup {Q("a"), Q("")}

\* A keyword group as _serialize_field writes it: [field.name, value].
GroupNodes == {L(<<A(k)>> \o b) : k \in {"at", "name"}, b \in SeqsUpTo(LeafNodes, 1)}

\* Trees of the shape to_list produces under a tag: the tag, then
\* positional leaves and keyword groups.
Trees ==
    {L(<<A("sym")>> \o b) : b \in SeqsUpTo(LeafNodes \cup GroupNodes, MaxTreeLen)}

TextAlphabet == {"(", ")", "a", " ", DQ}

RECURSIVE TextsUpTo(_)
TextsUpTo(n) ==
    IF n = 0 THEN {""}
    ELSE LET p == TextsUpTo(n - 1) IN p \cup {s \o c : s \in p, c \in TextAlphabet}

(***************************************************************************)
(* The text layer as a state machine: a tree is rendered and the text      *)
(* tokenized, or a text is given and tokenized.                            *)
(***************************************************************************)
InitText ==
    /\ pc = "idle"
    /\ cls = ""
    /\ inst = NoValue
    /\ expr = NoValue
    /\ text = ""
    /\ res = Ok(NoValue)
    /\ env = [gen |-> "kicad", uuid |-> "00000000-0000-0000-0000-000000000000"]
    /\ annotation = [k |-> "none", vals |-> {}, c |-> "", subs |-> <<>>]
    /\ files = NoValue
    /\ original_text = NoValue
    /\ before = NoValue
    /\ self = NoValue
    /\ that = NoValue

\* text = from_list_to_str(tree)
Render ==
    /\ pc = "idle"
    /\ \E tr \in Trees :
          /\ expr' = tr
          /\ text' = from_list_to_str(tr)
    /\ pc' = "rendered"
    /\ UNCHANGED <<cls, inst, res, env, annotation, world>>

\* text = from_list_to_str(leaf), for a leaf alone
RenderLeaf ==
    /\ pc = "idle"
    /\ \E n \in LeafNodes :
          /\ expr' = n
          /\ text' = from_list_to_str(n)
    /\ pc' = "leaf"
    /\ UNCHANGED <<cls, inst, res, env, annotation, world>>

\* a text from outside
GiveText ==
    /\ pc = "idle"
    /\ \E s \in TextsUpTo(MaxTextLen) : text' = s
    /\ pc' = "given"
    /\ UNCHANGED <<cls, inst, expr, res, env, annotation, world>>

\* res = from_str_to_list(text)
Tokenize ==
    /\ pc \in {"rendered", "given"}
    /\ res' = from_str_to_list(text)
    /\ pc' = IF pc = "rendered" THEN "reparsed" ELSE "tokenized"
    /\ UNCHANGED <<cls, inst, expr, text, env, annotation, world>>

NextText == Render \/ RenderLeaf \/ GiveText \/ Tokenize

SpecText == InitText /\ [][NextText]_vars

(***************************************************************************)
(* Numbers.  A value is sign, integer part, the first six fraction digits  *)
(* (micro) and three further fraction digits (rem), so that rounding to    *)
(* six places has something to round.  neg with zero magnitude is -0.0.    *)
(***************************************************************************)
\* number_to_str's keyword argument precision
Precision == 6

Pow10(n) == 10 ^ n

Num(neg, ip, micro, rem) == [k |-> "num", neg |-> neg, ip |-> ip, micro |-> micro, rem |-> rem]

Digit(d) == SubSeq("0123456789", d + 1, d + 1)

DigitChars == {Digit(d) : d \in 0..9}

DigitVal(c) == CHOOSE d \in 0..9 : Digit(d) = c

\* n written with exactly w digits, the digits halved between the calls
RECURSIVE Padded(_, _)
Padded(n, w) ==
    IF w = 0 THEN ""
    ELSE IF w = 1 THEN Digit(n % 10)
    ELSE Padded(n \div Pow10(w \div 2), w - w \div 2) \o Padded(n % Pow10(w \div 2), w \div 2)

\* str(n) of a natural number below 10^9
IntStr(n) == Padded(n, CHOOSE w \in 1..9 : n < Pow10(w) /\ (w = 1 \/ n >= Pow10(w - 1)))

\* str.rstrip(c) for a single character c
rstrip(s, c) ==
    LET kept == {i \in 1..Len(s) : Ch(s, i) # c} IN
    IF kept = {} THEN "" ELSE SubSeq(s, 1, CHOOSE i \in kept : \A j \in kept : j <= i)

\* The value in units of 10^-6 after rounding to six places: to nearest,
\* a tie to even (the rounding of the 'f' format; a binary float is never
\* exactly on a tie at six places).
RoundedMicros(v) ==
    LET m == v.ip * Pow10(Precision) + v.micro IN
    IF v.rem > 500 \/ (v.rem = 500 /\ m % 2 = 1) THEN m + 1 ELSE m

\* f"{v:.6f}": the sign is that of v, also when the digits round to zero.
FormatFixed(v) ==
    LET m == RoundedMicros(v) IN
    (IF v.neg THEN "-" ELSE "")
        \o IntStr(m \div Pow10(Precision)) \o "." \o Padded(m % Pow10(Precision), Precision)

number_to_str_swapped(v) == rstrip(rstrip(FormatFixed(v), "."), "0")

number_to_str(v) == rstrip(rstrip(FormatFixed(v), "0"), ".")

\* float(s) / int(s) on the plain decimal numerals [-]digits[.digits] with
\* at most nine fraction digits; the inputs of the model hold no other
\* numeral form (no exponent, sign '+', underscore or surrounding blank).
AllDigits(s) == \A i \in 1..Len(s) : Ch(s, i) \in DigitChars

\* the number a string of digits writes, the digits halved between the calls
RECURSIVE DigitsVal(_)
DigitsVal(s) ==
    IF Len(s) = 0 THEN 0
    ELSE IF Len(s) = 1 THEN DigitVal(s)
    ELSE DigitsVal(SubSeq(s, 1, Len(s) \div 2)) * Pow10(Len(s) - Len(s) \div 2)
            + DigitsVal(SubSeq(s, Len(s) \div 2 + 1, Len(s)))

\* str.find(c, i - 1) + 1
IndexOf(s, c, i) ==
    LET at == {k \in i..Len(s) : Ch(s, k) = c} IN
    IF at = {} THEN 0 ELSE CHOOSE k \in at : \A h \in at : k <= h

\* s with zeros added on the right up to w characters, w at most nine
PadRight(s, w) == IF Len(s) >= w THEN s ELSE s \o SubSeq("000000000", 1, w - Len(s))

IsNumeral(s) ==
    LET body == IF Len(s) > 0 /\ Ch(s, 1) = "-" THEN SubSeq(s, 2, Len(s)) ELSE s
        dot == IndexOf(body, ".", 1)
        ipart == IF dot = 0 THEN body ELSE SubSeq(body, 1, dot - 1)
        fpart == IF dot = 0 THEN "" ELSE SubSeq(body, dot + 1, Len(body))
    IN /\ Len(ipart) > 0 /\ Len(ipart) <= 9
       /\ AllDigits(ipart)
       /\ AllDigits(fpart)
       /\ Len(fpart) <= 9

IsIntNumeral(s) == IsNumeral(s) /\ IndexOf(s, ".", 1) = 0

ParseNum(s) ==
    LET neg == Ch(s, 1) = "-"
        body == IF neg THEN SubSeq(s, 2, Len(s)) ELSE s
        dot == IndexOf(body, ".", 1)
        ipart == IF dot = 0 THEN body ELSE SubSeq(body, 1, dot - 1)
        fpart == PadRight(IF dot = 0 THEN "" ELSE SubSeq(body, dot + 1, Len(body)), 9)
    IN Num(neg, DigitsVal(ipart), DigitsVal(SubSeq(fpart, 1, 6)), DigitsVal(SubSeq(fpart, 7, 9)))

(***************************************************************************)
(* The number renderer as a state machine.                                 *)
(***************************************************************************)
\* largest integer part drawn from a range
MaxIntPart == 2

IntParts == 0..MaxIntPart \cup {10, 1000}

Micros == {0, 1, 2, 10, 100, 500000, 999999}

Rems == {0, 342, 499, 500, 501, 999}

NumInputs == {Num(n, i, m, r) : n \in BOOLEAN, i \in IntParts, m \in Micros, r \in Rems}

InitNum == InitText

\* text = number_to_str(v)
NumberToStr ==
    /\ pc = "idle"
    /\ \E v \in NumInputs :
          /\ inst' = v
          /\ text' = number_to_str(v)
    /\ pc' = "number"
    /\ UNCHANGED <<cls, expr, res, env, annotation, world>>

NextNum == NumberToStr

SpecNum == InitNum /\ [][NextNum]_vars

(***************************************************************************)
(* Field types (the annotations of the dataclass fields).                  *)
(***************************************************************************)
Ty(k) == [k |-> k, vals |-> {}, c |-> "", subs |-> <<>>]

TFloat == Ty("float")

TInt == Ty("int")

TStr == Ty("str")

TBool == Ty("bool")

TUuid == Ty("uuid")

TNone == Ty("none")

TEnum(vals) == [Ty("enum") EXCEPT !.vals = vals]

TLit(vals) == [Ty("literal") EXCEPT !.vals = vals]

TRec(c) == [Ty("rec") EXCEPT !.c = c]

\* Literal[..., None]: the strings of vals and None
TLitOrNone(vals) == [Ty("literal") EXCEPT !.vals = vals, !.c = "None"]

TList(sub) == [Ty("list") EXCEPT !.subs = <<sub>>]

TTuple(subs) == [Ty("tuple") EXCEPT !.subs = subs]

TUnion(subs) == [Ty("union") EXCEPT !.subs = subs]

\* Optional[X] is Union[X, None]
TOpt(sub) == TUnion(<<sub, TNone>>)

\* number.is_number
is_number(ty) == ty.k \in {"int", "float"}

(***************************************************************************)
(* Python values held by instances.                                        *)
(***************************************************************************)
VStr(s) == [k |-> "str", s |-> s]

VBool(b) == [k |-> "bool", b |-> b]

VNone == [k |-> "none"]

VSeq(items) == [k |-> "seq", items |-> items]

VRec(c, f) == [k |-> "rec", c |-> c, f |-> f]

VUuid(s) == [k |-> "uuid", s |-> s]

\* the value a default_factory of uuid4 stands for until it is called
VUuid4 == [k |-> "uuid4"]

N0 == Num(FALSE, 0, 0, 0)

\* str(value) for the values that reach it
PyStr(v) ==
    CASE v.k = "str" -> v.s
      [] v.k = "uuid" -> v.s
      [] v.k = "bool" -> IF v.b THEN "True" ELSE "False"
      [] v.k = "none" -> "None"

(***************************************************************************)
(* The record types: kicad/common.py, and the two top-level types with the *)
(* fields listed here.  A field is name, type, grammar tags, whether it is *)
(* required, and its default (the default_factory's result).               *)
(***************************************************************************)
Field(name, ty, meta, req, def) ==
    [name |-> name, ty |-> ty, meta |-> meta, req |-> req, def |-> def]

get_meta(field, tag) == tag \in field.meta

PaperFormat ==
    {"A0", "A1", "A2", "A3", "A4", "A5", "A", "B", "C", "D", "E",
     "USLetter", "USLegal", "USLedger"}

PaperOrientation == {"", "portrait"}

JustifyHoriz == {"left", "center", "right"}

JustifyVert == {"top", "center", "bottom"}

SchVersion == "20230121"

PcbVersion == "20221018"

TagField(tag) == Field("kicad_expr_tag_name", TLit({tag}), {}, FALSE, VStr(tag))

Pair == TTuple(<<TFloat, TFloat>>)

FillType == {"none", "outline", "background"}

Color == TTuple(<<TInt, TInt, TInt, TFloat>>)

Paper == TUnion(<<TRec("PaperUser"), TRec("PaperStandard")>>)

\* the positions of the field called n among the fields fs
Named(fs, n) == {i \in 1..Len(fs) : fs[i].name = n}

Lookup(fs, n) == fs[CHOOSE i \in Named(fs, n) : TRUE]

\* the instance whose fields hold the defaults of the fields fs
Defaults(c, fs) == VRec(c, [n \in {fs[i].name : i \in 1..Len(fs)} |-> Lookup(fs, n).def])

RECURSIVE Fields(_)
DefaultInstance(c) == Defaults(c, Fields(c))
Fields(c) ==
    CASE c = "PaperUser" ->
           <<Field("format", TLit({"User"}), {"kicad_no_kw", "kicad_always_quotes"},
                   FALSE, VStr("User")),
             Field("width", TFloat, {"kicad_no_kw"}, FALSE, N0),
             Field("height", TFloat, {"kicad_no_kw"}, FALSE, N0),
             TagField("paper")>>
      [] c = "PaperStandard" ->
           <<Field("format", TEnum(PaperFormat), {"kicad_no_kw", "kicad_always_quotes"},
                   FALSE, VStr("A4")),
             Field("orientation", TEnum(PaperOrientation),
                   {"kicad_no_kw", "kicad_omits_default"}, FALSE, VStr("")),
             TagField("paper")>>
      [] c = "PolygonArc" ->
           <<Field("start", Pair, {}, TRUE, VNone),
             Field("mid", Pair, {}, TRUE, VNone),
             Field("end", Pair, {}, TRUE, VNone),
             TagField("arc")>>
      [] c = "XY" ->
           <<Field("x", TFloat, {"kicad_no_kw"}, TRUE, VNone),
             Field("y", TFloat, {"kicad_no_kw"}, TRUE, VNone)>>
      [] c = "Pts" ->
           <<Field("xy", TList(TRec("XY")), {}, FALSE, VSeq(<<>>)),
             Field("arc", TList(TRec("PolygonArc")), {}, FALSE, VSeq(<<>>))>>
      [] c = "Image" ->
           <<Field("at", Pair, {}, TRUE, VNone),
             Field("scale", TOpt(TFloat), {}, FALSE, VNone),
             Field("uuid", TUuid, {}, FALSE, VUuid4),
             Field("data", TList(TStr), {}, FALSE, VSeq(<<>>))>>
      [] c = "TitleBlockComment" ->
           <<Field("number", TInt, {"kicad_no_kw"}, FALSE, Num(FALSE, 1, 0, 0)),
             Field("text", TStr, {"kicad_no_kw", "kicad_always_quotes"}, FALSE, VStr("")),
             TagField("comment")>>
      [] c = "TitleBlock" ->
           <<Field("title", TStr, {"kicad_omits_default"}, FALSE, VStr("")),
             Field("date", TStr, {"kicad_omits_default"}, FALSE, VStr("")),
             Field("rev", TStr, {"kicad_omits_default"}, FALSE, VStr("")),
             Field("company", TStr, {"kicad_omits_default"}, FALSE, VStr("")),
             Field("comment", TList(TRec("TitleBlockComment")), {"kicad_omits_default"},
                   FALSE, VSeq(<<>>))>>
      [] c = "Justify" ->
           <<Field("horizontal", TEnum(JustifyHoriz), {"kicad_no_kw", "kicad_omits_default"},
                   FALSE, VStr("center")),
             Field("vertical", TEnum(JustifyVert), {"kicad_no_kw", "kicad_omits_default"},
                   FALSE, VStr("center")),
             Field("mirror", TBool, {"kicad_kw_bool"}, FALSE, VBool(FALSE))>>
      [] c = "Font" ->
           <<Field("size", Pair, {}, FALSE,
                   VSeq(<<Num(FALSE, 1, 270000, 0), Num(FALSE, 1, 270000, 0)>>)),
             Field("thickness", TOpt(TFloat), {"kicad_omits_default"}, FALSE, VNone),
             Field("italic", TBool, {"kicad_kw_bool"}, FALSE, VBool(FALSE)),
             Field("bold", TBool, {"kicad_kw_bool"}, FALSE, VBool(FALSE))>>
      [] c = "Effects" ->
           <<Field("font", TRec("Font"), {}, FALSE, DefaultInstance("Font")),
             Field("justify", TRec("Justify"), {"kicad_omits_default"}, FALSE,
                   DefaultInstance("Justify")),
             Field("hide", TBool, {"kicad_kw_bool"}, FALSE, VBool(FALSE))>>
      [] c = "FillSimple" ->
           <<Field("type", TEnum(FillType), {}, FALSE, VStr("background"))>>
      [] c = "FillColor" ->
           <<Field("color", Color, {}, FALSE, VSeq(<<N0, N0, N0, N0>>))>>
      [] c = "FillTypeColor" ->
           <<Field("type", TLit({"color"}), {}, FALSE, VStr("color")),
             Field("color", Color, {}, FALSE, VSeq(<<N0, N0, N0, N0>>))>>
      [] c = "Stackup" ->
           <<Field("layer", TList(TRec("StackupLayer")), {}, FALSE, VSeq(<<>>)),
             Field("copper_finish", TOpt(TStr), {}, FALSE, VNone),
             Field("dielectric_constraints", TBool,
                   {"kicad_bool_yes_no", "kicad_omits_default"}, FALSE, VBool(FALSE)),
             Field("edge_connector", TLitOrNone({"yes", "bevelled"}),
                   {"kicad_omits_default"}, FALSE, VNone),
             Field("castellated_pads", TBool,
                   {"kicad_bool_yes_no", "kicad_omits_default"}, FALSE, VBool(FALSE)),
             Field("edge_plating", TBool,
                   {"kicad_bool_yes_no", "kicad_omits_default"}, FALSE, VBool(FALSE))>>
      [] c = "LibSymbols" ->
           <<Field("symbol", TList(TRec("LibSymbol")), {}, FALSE, VSeq(<<>>))>>
      [] c = "General" ->
           <<Field("thickness", TFloat, {}, FALSE, N0)>>
      [] c = "Schematic" ->
           <<Field("version", TLit({SchVersion}), {}, FALSE, VStr(SchVersion)),
             Field("generator", TStr, {}, FALSE, VStr("edea")),
             Field("uuid", TUuid, {}, FALSE, VUuid4),
             Field("paper", Paper, {}, FALSE, DefaultInstance("PaperStandard")),
             Field("title_block", TOpt(TRec("TitleBlock")), {}, FALSE, VNone),
             Field("lib_symbols", TRec("LibSymbols"), {}, FALSE, DefaultInstance("LibSymbols")),
             Field("image", TList(TRec("Image")), {}, FALSE, VSeq(<<>>)),
             TagField("kicad_sch")>>
      [] c = "Pcb" ->
           <<Field("version", TLit({PcbVersion}), {}, FALSE, VStr(PcbVersion)),
             Field("generator", TStr, {}, FALSE, VStr("edea")),
             Field("general", TRec("General"), {}, FALSE, DefaultInstance("General")),
             Field("paper", Paper, {}, FALSE, DefaultInstance("PaperStandard")),
             Field("title_block", TOpt(TRec("TitleBlock")), {}, FALSE, VNone),
             TagField("kicad_pcb")>>
      [] c = "Via" ->
           <<Field("type", TLit({"blind", "micro", "through"}),
                   {"kicad_no_kw", "kicad_omits_default"}, FALSE, VStr("through")),
             Field("locked", TBool, {"kicad_kw_bool"}, FALSE, VBool(FALSE)),
             Field("at", Pair, {}, FALSE, VSeq(<<N0, N0>>)),
             Field("size", TFloat, {}, FALSE, N0),
             Field("drill", TFloat, {}, FALSE, N0),
             Field("layers", TList(TStr), {}, FALSE, VSeq(<<>>)),
             Field("remove_unused_layers", TBool, {"kicad_kw_bool_empty"}, FALSE, VBool(FALSE)),
             Field("keep_end_layers", TBool, {"kicad_kw_bool_empty"}, FALSE, VBool(FALSE)),
             Field("free", TBool, {"kicad_kw_bool_empty"}, FALSE, VBool(FALSE)),
             Field("zone_layer_connections", TList(TStr), {"kicad_omits_default"}, FALSE,
                   VSeq(<<>>)),
             Field("net", TInt, {}, FALSE, N0),
             Field("tstamp", TUuid, {}, FALSE, VUuid4)>>
      [] c = "FootprintText" ->
           \* at, layer and render_cache, declared between text and hide and
           \* after tstamp, are of types that are not followed here; no
           \* argument list below names them
           <<Field("type", TLit({"reference", "value", "user"}), {"kicad_no_kw"}, FALSE,
                   VStr("user")),
             Field("locked", TBool, {"kicad_kw_bool"}, FALSE, VBool(FALSE)),
             Field("text", TStr, {"kicad_always_quotes", "kicad_no_kw"}, FALSE, VStr("")),
             Field("hide", TBool, {"kicad_kw_bool"}, FALSE, VBool(FALSE)),
             Field("effects", TRec("Effects"), {}, FALSE, DefaultInstance("Effects")),
             Field("tstamp", TUuid, {}, FALSE, VUuid4),
             TagField("fp_text")>>

HasField(c, n) == Named(Fields(c), n) # {}

FieldOf(c, n) == Lookup(Fields(c), n)

\* the tag of class c whose fields are fs: the declared one, else the class
\* name in snake case
TagName(c, fs) ==
    IF Named(fs, "kicad_expr_tag_name") # {} THEN Lookup(fs, "kicad_expr_tag_name").def.s
    ELSE CASE c = "XY" -> "xy"
           [] c = "Pts" -> "pts"
           [] c = "Image" -> "image"
           [] c = "TitleBlock" -> "title_block"
           [] c = "Justify" -> "justify"
           [] c = "Font" -> "font"
           [] c = "Effects" -> "effects"
           [] c = "LibSymbols" -> "lib_symbols"
           [] c = "General" -> "general"
           [] c = "Stackup" -> "stackup"
           [] c = "Via" -> "via"
           [] c \in {"FillSimple", "FillColor", "FillTypeColor"} -> "fill"

kicad_expr_tag_name(c) == TagName(c, Fields(c))

\* parser.all_classes, in the order the classes are defined
all_classes ==
    <<"PaperUser", "PaperStandard", "PolygonArc", "XY", "Pts", "Image",
      "TitleBlockComment", "TitleBlock", "Justify", "Font", "Effects",
      "FillSimple", "FillColor", "FillTypeColor", "LibSymbols", "Schematic",
      "General", "Stackup", "Pcb">>

(***************************************************************************)
(* Equality of instances: KicadExpr.__eq__ compares field by field, and    *)
(* numbers by their rendered text.                                         *)
(***************************************************************************)
RECURSIVE fields_equal(_, _)
fields_equal(a, b) ==
    IF a.k # b.k THEN FALSE
    ELSE CASE a.k = "num" -> number_to_str(a) = number_to_str(b)
           [] a.k = "seq" ->
                /\ Len(a.items) = Len(b.items)
                /\ \A i \in 1..Len(a.items) : fields_equal(a.items[i], b.items[i])
           [] a.k = "rec" ->
                /\ a.c = b.c
                /\ \A n \in DOMAIN a.f : fields_equal(a.f[n], b.f[n])
           [] OTHER -> a = b

\* Python's == between a field value and its default
IsZero(v) == v.ip = 0 /\ v.micro = 0 /\ v.rem = 0

PyEq(a, b) ==
    IF a.k # b.k THEN FALSE
    ELSE IF a.k = "num"
         THEN (IsZero(a) /\ IsZero(b))
              \/ (a.neg = b.neg /\ a.ip = b.ip /\ a.micro = b.micro /\ a.rem = b.rem)
    ELSE fields_equal(a, b)

(***************************************************************************)
(* Encoder: KicadExpr.to_list, _serialize_field, _serialize_as,            *)
(* _value_to_str.                                                          *)
(***************************************************************************)
_value_to_str(ty, value, in_quotes) ==
    LET str == IF is_number(ty) THEN number_to_str(value)
               ELSE IF ty.k = "bool" THEN (IF value.b THEN "true" ELSE "false")
               ELSE PyStr(value)
    IN IF in_quotes THEN Q(str) ELSE A(str)

\* _type_utils.get_full_seq_type(value), for the values a union holds here
get_full_seq_type(value) ==
    CASE value.k = "rec" -> TRec(value.c)
      [] value.k = "num" -> TFloat
      [] value.k = "str" -> TStr
      [] value.k = "bool" -> TBool
      [] value.k = "uuid" -> TUuid
      [] value.k = "none" -> TNone

RECURSIVE to_list(_)
RECURSIVE _serialize_as(_, _, _)
RECURSIVE SerializeEach(_, _, _)
RECURSIVE SerializeRecords(_, _)

\* the tests with the one for the default made after the one for positional
\* fields
SerializeTests_late(field, value, none) ==
    <<field.name = "kicad_expr_tag_name" \/ none,
      get_meta(field, "kicad_omits_default") /\ PyEq(value, field.def)
         /\ ~get_meta(field, "kicad_no_kw"),
      get_meta(field, "kicad_no_kw"),
      get_meta(field, "kicad_kw_bool_empty"),
      get_meta(field, "kicad_kw_bool"),
      get_meta(field, "kicad_bool_yes_no"),
      field.ty.k = "list" /\ field.ty.subs[1].k = "rec",
      TRUE>>

\* the tests of _serialize_field in the order they are made, the last one
\* standing for the statements after them; none is the test for None
SerializeTests(field, value, none) ==
    <<field.name = "kicad_expr_tag_name" \/ none,
      get_meta(field, "kicad_omits_default") /\ PyEq(value, field.def),
      get_meta(field, "kicad_no_kw"),
      get_meta(field, "kicad_kw_bool_empty"),
      get_meta(field, "kicad_kw_bool"),
      get_meta(field, "kicad_bool_yes_no"),
      field.ty.k = "list" /\ field.ty.subs[1].k = "rec",
      TRUE>>

\* what _serialize_field returns after test number test held
SerializeBy(test, field, value, in_quotes) ==
    CASE test \in {1, 2} -> <<>>
      [] test = 3 -> <<_value_to_str(field.ty, value, in_quotes)>>
      [] test = 4 -> IF value.b THEN <<L(<<A(field.name)>>)>> ELSE <<>>
      [] test = 5 -> IF value.b THEN <<A(field.name)>> ELSE <<>>
      [] test = 6 -> <<L(<<A(field.name), A(IF value.b THEN "yes" ELSE "no")>>)>>
      [] test = 7 -> SerializeRecords(field.name, value.items)
      [] test = 8 -> <<L(<<A(field.name)>> \o _serialize_as(field.ty, value, in_quotes))>>

\* _serialize_field without the test for None
_serialize_field_none(field, value) ==
    SerializeBy(First(SerializeTests(field, value, FALSE)), field, value,
                get_meta(field, "kicad_always_quotes"))

_serialize_field(field, value) ==
    SerializeBy(First(SerializeTests(field, value, value.k = "none")), field, value,
                get_meta(field, "kicad_always_quotes"))

\* [[field.name] + v.to_list() for v in value]
SerializeRecords(name, items) ==
    IF Len(items) = 0 THEN <<>>
    ELSE <<L(<<A(name)>> \o to_list(Head(items)))>> \o SerializeRecords(name, Tail(items))

_serialize_as(ty, value, in_quotes) ==
    CASE ty.k = "rec" -> to_list(value)
      [] ty.k = "tuple" ->
           [i \in 1..Len(ty.subs) |-> _value_to_str(ty.subs[i], value.items[i], in_quotes)]
      [] ty.k = "list" ->
           IF ty.subs[1].k \in {"tuple", "list", "union"}
           THEN SerializeEach(ty.subs[1], value.items, in_quotes)
           ELSE [i \in 1..Len(value.items) |->
                    _value_to_str(ty.subs[1], value.items[i], in_quotes)]
      [] ty.k = "union" -> _serialize_as(get_full_seq_type(value), value, in_quotes)
      [] OTHER -> <<_value_to_str(ty, value, in_quotes)>>

\* [_serialize_as(sub, v, in_quotes) for v in value]
SerializeEach(sub, items, in_quotes) ==
    IF Len(items) = 0 THEN <<>>
    ELSE <<L(_serialize_as(sub, Head(items), in_quotes))>>
         \o SerializeEach(sub, Tail(items), in_quotes)

\* the loop of to_list over dataclasses.fields(self): sexpr += ...
SerializeFields(fs, x) ==
    Concat(List([i \in 1..Len(fs) |-> _serialize_field(fs[i], x.f[fs[i].name])]))

to_list(x) == SerializeFields(Fields(x.c), x)

\* serializer.to_list: the tag, then the arguments
serializer_to_list(x) == L(<<A(kicad_expr_tag_name(x.c))>> \o to_list(x))

\* serializer.to_str
to_str(x) == from_list_to_str(serializer_to_list(x))

(***************************************************************************)
(* Decoder.  e is the environment of a call: e.gen names the engine        *)
(* ("kicad" for kicad/base.py, "types" for types/base.py) and e.uuid is    *)
(* what uuid4() returns.                                                   *)
(***************************************************************************)
\* the Python value True that types/base.py puts in an argument list
PyTrue == [t |-> "true", s |-> "True", q |-> FALSE, items |-> <<>>]

\* the marker _split_args pairs with an atom found after the first group
Marker(e) == IF e.gen = "kicad" THEN A("true") ELSE PyTrue

\* the exception classes the union loop of _parse_as catches; VersionError
\* derives from ValueError, pydantic's ValidationError is named in both
Caught(e) ==
    IF e.gen = "kicad" THEN {"ValidationError", "TypeError", "ValueError", "VersionError"}
    ELSE {"ValidationError", "TypeError"}

_starts_with_number(n) ==
    /\ Len(n.items) > 0
    /\ IsAtom(n.items[1])
    /\ Len(n.items[1].s) > 0
    /\ Ch(n.items[1].s, 1) \in DigitChars

\* a first loop that stops at the first list, whatever it starts with
CountArgs_any_list(items) ==
    LET groups == {i \in 1..Len(items) : IsList(items[i])} IN
    IF groups = {} THEN Len(items) ELSE Min(groups) - 1

\* the first loop of _split_args: how many leading elements are positional
CountArgs(items) ==
    LET groups == {i \in 1..Len(items) :
                      IsList(items[i]) /\ ~_starts_with_number(items[i])} IN
    IF groups = {} THEN Len(items) ELSE Min(groups) - 1

\* the keyword of one element after the positional ones
KwOf(n) == IF IsList(n) THEN n.items[1].s ELSE n.s

ArgOf(e, n) == IF IsList(n) THEN Tail(n.items) ELSE <<Marker(e)>>

\* the keys of the kwargs dict, in insertion order
KeysOf(rest) ==
    LET kws == [i \in 1..Len(rest) |-> KwOf(rest[i])] \o <<>> IN
    Pick(kws, {i \in 1..Len(rest) : \A j \in 1..(i - 1) : kws[j] # kws[i]})

\* kwargs[kw]: the arguments of every element with that keyword, in order
OccOf(e, rest, kw) ==
    Pick([i \in 1..Len(rest) |-> ArgOf(e, rest[i])] \o <<>>,
         {i \in 1..Len(rest) : KwOf(rest[i]) = kw})

_split_args(e, items) ==
    LET index == CountArgs(items)
        args == SubSeq(items, 1, index)
        rest == SubSeq(items, index + 1, Len(items))
    IN IF \E i \in 1..Len(rest) : IsList(rest[i]) /\ Len(rest[i].items) = 0
       THEN Raise("IndexError", "list index out of range")
       ELSE IF \E i \in 1..Len(rest) : IsList(rest[i]) /\ IsList(rest[i].items[1])
       THEN Raise("TypeError", "unhashable type: 'list'")
       ELSE LET keys == KeysOf(rest) IN
            Ok([args |-> args, keys |-> keys,
                occ |-> [kw \in {keys[i] : i \in 1..Len(keys)} |-> OccOf(e, rest, kw)]])

\* an element of an s-expression list as the Python value it is
RECURSIVE Raw(_)
Raw(n) ==
    IF n.t = "true" THEN VBool(TRUE)
    ELSE IF IsAtom(n) THEN VStr(n.s)
    ELSE VSeq([i \in 1..Len(n.items) |-> Raw(n.items[i])])

RawSeq(items) == VSeq([i \in 1..Len(items) |-> Raw(items[i])])

\* repr() of a list of plain strings, which str() of a list returns
RECURSIVE PyRepr(_)
RECURSIVE PyReprJoin(_)
PyRepr(n) ==
    IF n.t = "true" THEN "True"
    ELSE IF IsAtom(n) THEN "'" \o n.s \o "'"
    ELSE "[" \o PyReprJoin(n.items) \o "]"
PyReprJoin(items) ==
    IF Len(items) = 0 THEN ""
    ELSE IF Len(items) = 1 THEN PyRepr(items[1])
    ELSE PyRepr(items[1]) \o ", " \o PyReprJoin(Tail(items))

LowerOf(c) ==
    CASE c = "A" -> "a" [] c = "B" -> "b" [] c = "C" -> "c"
      [] c = "D" -> "d" [] c = "E" -> "e" [] c = "F" -> "f"
      [] c = "T" -> "t" [] c = "N" -> "n" [] c = "O" -> "o"
      [] c = "R" -> "r" [] c = "U" -> "u" [] c = "Y" -> "y"
      [] c = "S" -> "s" [] c = "L" -> "l"
      [] OTHER -> c

\* str.lower(), halving the string
RECURSIVE Lower(_)
Lower(s) ==
    IF Len(s) = 0 THEN ""
    ELSE IF Len(s) = 1 THEN LowerOf(s)
    ELSE Lower(SubSeq(s, 1, Len(s) \div 2)) \o Lower(SubSeq(s, Len(s) \div 2 + 1, Len(s)))

HexChars == DigitChars \cup {"a", "b", "c", "d", "e", "f"}

\* a string uuid.UUID accepts: 32 hexadecimal digits in the 8-4-4-4-12 layout
IsUuidStr(s) ==
    /\ Len(s) = 36
    /\ \A i \in 1..36 :
          IF i \in {9, 14, 19, 24} THEN Ch(s, i) = "-"
          ELSE LowerOf(Ch(s, i)) \in HexChars

\* annotation(value[0][0]): calling the type on one element
Convert(ty, x) ==
    CASE ty.k = "float" ->
           IF x.t = "true" THEN Ok(Num(FALSE, 1, 0, 0))
           ELSE IF IsList(x) THEN Raise("TypeError", "float() argument")
           ELSE IF IsNumeral(x.s) THEN Ok(ParseNum(x.s))
           ELSE Raise("ValueError", "could not convert string to float")
      [] ty.k = "int" ->
           IF x.t = "true" THEN Ok(Num(FALSE, 1, 0, 0))
           ELSE IF IsList(x) THEN Raise("TypeError", "int() argument")
           ELSE IF IsIntNumeral(x.s) THEN Ok(ParseNum(x.s))
           ELSE Raise("ValueError", "invalid literal for int()")
      [] ty.k = "str" -> Ok(VStr(IF IsList(x) THEN PyRepr(x) ELSE x.s))
      [] ty.k = "bool" ->
           Ok(VBool(IF x.t = "true" THEN TRUE
                    ELSE IF IsList(x) THEN Len(x.items) > 0
                    ELSE Len(x.s) > 0))
      [] ty.k = "enum" ->
           IF IsAtom(x) /\ x.s \in ty.vals THEN Ok(VStr(x.s))
           ELSE Raise("ValueError", "is not a valid member")
      [] ty.k = "uuid" ->
           IF ~IsAtom(x) THEN Raise("AttributeError", "no attribute 'replace'")
           ELSE IF IsUuidStr(x.s) THEN Ok(VUuid(Lower(x.s)))
           ELSE Raise("ValueError", "badly formed hexadecimal UUID string")
      [] ty.k = "none" -> Raise("TypeError", "NoneType takes no arguments")

(***************************************************************************)
(* Construction: the call of cls with the parsed arguments, a pydantic     *)
(* dataclass: the arguments are bound to the fields, the root validator of *)
(* Justify runs, and every field value is validated against its type.      *)
(***************************************************************************)
BoolTrue == {"1", "on", "t", "true", "y", "yes"}

BoolFalse == {"0", "off", "f", "false", "n", "no"}

Invalid(why) == Raise("ValidationError", why)

\* Justify.validate: the values are matched to the fields by what they are
JustifyValidate(d) ==
    LET hs == {i \in 1..Len(d) : d[i] \in {VStr("left"), VStr("right")}}
        vs == {i \in 1..Len(d) : d[i] \in {VStr("top"), VStr("bottom")}}
        ms == {i \in 1..Len(d) : d[i] = VStr("mirror")}
        Last(S) == CHOOSE i \in S : \A j \in S : j <= i
    IN <<IF hs = {} THEN VStr("center") ELSE d[Last(hs)],
         IF vs = {} THEN VStr("center") ELSE d[Last(vs)],
         IF ms = {} THEN VBool(FALSE) ELSE VBool(TRUE)>>

\* the result of a default or default_factory
DefaultValue(e, field) == IF field.def = VUuid4 THEN VUuid(e.uuid) ELSE field.def

RECURSIVE Make(_, _, _, _)
RECURSIVE Coerce(_, _, _)
RECURSIVE CoerceUnion(_, _, _)

\* the first of the results rs that is no error, else the result other
FirstOk(rs, other) ==
    IF \E i \in 1..Len(rs) : rs[i].ok THEN rs[Min({i \in 1..Len(rs) : rs[i].ok})]
    ELSE other

\* the list of the validated items, or the error of an item that is not valid
CoerceItems(rs) ==
    IF \A i \in 1..Len(rs) : rs[i].ok THEN Ok(VSeq([i \in 1..Len(rs) |-> rs[i].v]))
    ELSE Invalid("item")

\* pydantic's validator for a value of the given type
Coerce(e, ty, v) ==
    CASE ty.k = "float" ->
           CASE v.k = "num" -> Ok(v)
             [] v.k = "bool" -> Ok(Num(FALSE, IF v.b THEN 1 ELSE 0, 0, 0))
             [] v.k = "str" ->
                  IF IsNumeral(v.s) THEN Ok(ParseNum(v.s))
                  ELSE Invalid("value is not a valid float")
             [] OTHER -> Invalid("value is not a valid float")
      [] ty.k = "int" ->
           CASE v.k = "num" -> Ok(Num(v.neg, v.ip, 0, 0))
             [] v.k = "bool" -> Ok(Num(FALSE, IF v.b THEN 1 ELSE 0, 0, 0))
             [] v.k = "str" ->
                  IF IsIntNumeral(v.s) THEN Ok(ParseNum(v.s))
                  ELSE Invalid("value is not a valid integer")
             [] OTHER -> Invalid("value is not a valid integer")
      [] ty.k = "str" ->
           CASE v.k = "str" -> Ok(v)
             [] v.k = "bool" -> Ok(VStr(PyStr(v)))
             [] OTHER -> Invalid("str type expected")
      [] ty.k = "bool" ->
           CASE v.k = "bool" -> Ok(v)
             [] v.k = "str" ->
                  IF Lower(v.s) \in BoolTrue THEN Ok(VBool(TRUE))
                  ELSE IF Lower(v.s) \in BoolFalse THEN Ok(VBool(FALSE))
                  ELSE Invalid("value could not be parsed to a boolean")
             [] OTHER -> Invalid("value could not be parsed to a boolean")
      [] ty.k \in {"enum", "literal"} ->
           CASE v.k = "str" ->
                  IF v.s \in ty.vals THEN Ok(VStr(v.s)) ELSE Invalid("unexpected value")
             [] v.k = "none" ->
                  IF ty.c = "None" THEN Ok(v) ELSE Invalid("unexpected value")
             [] OTHER -> Invalid("unexpected value")
      [] ty.k = "uuid" ->
           CASE v.k = "uuid" -> Ok(v)
             [] v.k = "str" ->
                  IF IsUuidStr(v.s) THEN Ok(VUuid(Lower(v.s)))
                  ELSE Invalid("value is not a valid uuid")
             [] OTHER -> Invalid("value is not a valid uuid")
      [] ty.k = "none" ->
           IF v.k = "none" THEN Ok(v) ELSE Invalid("value is not None")
      [] ty.k = "tuple" ->
           CASE v.k = "seq" /\ Len(v.items) = Len(ty.subs) ->
                  CoerceItems([i \in 1..Len(ty.subs) |->
                                  Coerce(e, ty.subs[i], v.items[i])] \o <<>>)
             [] OTHER -> Invalid("value is not a valid tuple")
      [] ty.k = "list" ->
           CASE v.k = "seq" ->
                  CoerceItems([i \in 1..Len(v.items) |->
                                  Coerce(e, ty.subs[1], v.items[i])] \o <<>>)
             [] OTHER -> Invalid("value is not a valid list")
      [] ty.k = "rec" ->
           CASE v.k = "rec" ->
                  IF v.c = ty.c THEN Ok(v) ELSE Invalid("instance of dataclass expected")
             [] v.k = "seq" ->
                  FirstOk(<<Make(e, ty.c, v.items, <<>>)>>, Invalid("dataclass arguments"))
             [] OTHER -> Invalid("instance of dataclass expected")
      [] ty.k = "union" -> CoerceUnion(e, ty.subs, v)

\* the members of a union are tried in order
CoerceUnion(e, subs, v) ==
    FirstOk([i \in 1..Len(subs) |-> Coerce(e, subs[i], v)] \o <<>>,
            Invalid("no union member accepts the value"))

\* the values of a field after the positional and keyword arguments are
\* bound and the defaults filled in
Bound(e, fs, args, kw) ==
    [i \in 1..Len(fs) |->
        IF i <= Len(args) THEN args[i]
        ELSE IF fs[i].name \in DOMAIN kw THEN kw[fs[i].name]
        ELSE DefaultValue(e, fs[i])] \o <<>>

\* the tests of the call of cls on its arguments, in the order they are made
MakeTests(fs, args, kw) ==
    <<Len(args) > Len(fs),
      \E i \in 1..Len(fs) : i <= Len(args) /\ fs[i].name \in DOMAIN kw,
      \E i \in 1..Len(fs) : i > Len(args) /\ fs[i].name \notin DOMAIN kw /\ fs[i].req,
      TRUE>>

\* the instance of class c with fields fs and the validated values rs, or
\* the error of the first field whose value is not valid
Validated(c, fs, rs) ==
    IF \A i \in 1..Len(fs) : rs[i].ok
    THEN Ok(VRec(c, [n \in {fs[i].name : i \in 1..Len(fs)} |->
                        rs[CHOOSE i \in 1..Len(fs) : fs[i].name = n].v]))
    ELSE Invalid(fs[Min({i \in 1..Len(fs) : ~rs[i].ok})].name)

\* the values the validators of the fields see: Justify has a root validator
Rooted(c, given) == IF c = "Justify" THEN JustifyValidate(given) ELSE given

\* what the call of cls gives after test number test held
MakeBy(test, e, c, fs, d) ==
    CASE test = 1 -> Raise("TypeError", "too many positional arguments")
      [] test = 2 -> Raise("TypeError", "got multiple values for argument")
      [] test = 3 -> Raise("TypeError", "missing required positional argument")
      [] test = 4 -> Validated(c, fs, [i \in 1..Len(fs) |-> Coerce(e, fs[i].ty, d[i])] \o <<>>)

\* the call of the class c whose fields are fs
MakeOf(e, c, fs, args, kw) ==
    MakeBy(First(MakeTests(fs, args, kw)), e, c, fs, Rooted(c, Bound(e, fs, args, kw)))

\* the call of cls: args are the positional values, kw maps names to values
Make(e, c, args, kw) == MakeOf(e, c, Fields(c), args, kw)

(***************************************************************************)
(* KicadExpr.from_list, _parse_field, _parse_as.                           *)
(***************************************************************************)
_assert_len_one(exp) ==
    IF Len(exp) # 1 THEN Raise("ValueError", "Expecting only one item") ELSE Ok(NoValue)

\* check_version accepting every version
check_version_any(c, v) == Ok(NoValue)

\* Schematic.check_version, Pcb.check_version
check_version(c, v) ==
    IF IsAtom(v) /\ v.s = FieldOf(c, "version").def.s THEN Ok(NoValue)
    ELSE Raise("VersionError", "unsupported file format version")

\* the loop over the kicad_kw_bool fields: a field whose name is among the
\* positional arguments becomes True and the first such argument is removed
ScanKwBool(fs, args, kw) ==
    LET ArgNamed(j, n) == IsAtom(args[j]) /\ args[j].s = n
        hit == {fs[i].name : i \in {i \in 1..Len(fs) :
                   /\ get_meta(fs[i], "kicad_kw_bool")
                   /\ \E j \in 1..Len(args) : ArgNamed(j, fs[i].name)}}
        drop == {j \in 1..Len(args) :
                    /\ IsAtom(args[j]) /\ args[j].s \in hit
                    /\ \A h \in 1..(j - 1) : ~ArgNamed(h, args[j].s)}
    IN [args |-> Pick(args, (1..Len(args)) \ drop),
        kw |-> [n \in DOMAIN kw \cup hit |-> IF n \in hit THEN VBool(TRUE) ELSE kw[n]]]

RECURSIVE FromList(_, _, _)
RECURSIVE _parse_as(_, _, _)
RECURSIVE ParseUnion(_, _, _, _, _)
RECURSIVE ParseEach(_, _, _)

\* _parse_field taking a kicad_bool_yes_no field for true when one of its
\* occurrences is ["yes"]
_parse_field_some_yes(e, field, value) ==
    IF get_meta(field, "kicad_kw_bool_empty")
    THEN IF value # <<<<>>>> THEN Raise("ValueError", "Expecting empty expression")
         ELSE Ok(VBool(TRUE))
    ELSE IF get_meta(field, "kicad_bool_yes_no")
    THEN Ok(VBool(\E i \in 1..Len(value) :
                     /\ Len(value[i]) = 1
                     /\ IsAtom(value[i][1]) /\ value[i][1].s = "yes"))
    ELSE _parse_as(e, field.ty, value)

\* _parse_field taking every group tagged with a kicad_kw_bool_empty field
\* for the flag
_parse_field_any_body(e, field, value) ==
    IF get_meta(field, "kicad_kw_bool_empty") THEN Ok(VBool(TRUE))
    ELSE IF get_meta(field, "kicad_bool_yes_no")
    THEN Ok(VBool(/\ Len(value) = 1 /\ Len(value[1]) = 1
                  /\ IsAtom(value[1][1]) /\ value[1][1].s = "yes"))
    ELSE _parse_as(e, field.ty, value)

_parse_field(e, field, value) ==
    IF get_meta(field, "kicad_kw_bool_empty")
    THEN IF value # <<<<>>>> THEN Raise("ValueError", "Expecting empty expression")
         ELSE Ok(VBool(TRUE))
    ELSE IF get_meta(field, "kicad_bool_yes_no")
    THEN Ok(VBool(/\ Len(value) = 1 /\ Len(value[1]) = 1
                  /\ IsAtom(value[1][1]) /\ value[1][1].s = "yes"))
    ELSE _parse_as(e, field.ty, value)

\* the list of the values of the results rs, or the first error among them
Collected(rs) ==
    IF \A i \in 1..Len(rs) : rs[i].ok THEN Ok(VSeq([i \in 1..Len(rs) |-> rs[i].v]))
    ELSE rs[Min({i \in 1..Len(rs) : ~rs[i].ok})]

\* [sub.from_list(e) for e in value]
ParseEach(e, c, value) ==
    Collected([i \in 1..Len(value) |-> FromList(e, c, value[i])] \o <<>>)

\* one round of the loop over the members of a union: r is what member i
\* made of the value
TryMember(r, e, subs, value, i, first) ==
    IF r.ok THEN r
    ELSE IF r.err \notin Caught(e) THEN r
    ELSE ParseUnion(e, subs, value, i + 1, IF i = 1 THEN r ELSE first)

\* the loop over the members of a union, from member i on; first is the
\* result of the first member when it failed (errors[0])
ParseUnion(e, subs, value, i, first) ==
    IF i > Len(subs) THEN first
    ELSE TryMember(_parse_as(e, subs[i], value), e, subs, value, i, first)

_parse_as(e, ty, value) ==
    CASE ty.k = "list" ->
           IF ty.subs[1].k = "rec" THEN ParseEach(e, ty.subs[1].c, value)
           ELSE IF ~_assert_len_one(value).ok THEN _assert_len_one(value)
           ELSE Ok(RawSeq(value[1]))
      [] ty.k = "rec" ->
           IF ~_assert_len_one(value).ok THEN _assert_len_one(value)
           ELSE FromList(e, ty.c, value[1])
      [] ty.k = "tuple" ->
           IF ~_assert_len_one(value).ok THEN _assert_len_one(value)
           ELSE Ok(RawSeq(value[1]))
      [] ty.k = "union" ->
           ParseUnion(e, ty.subs, value, 1, Raise("Exception", "Unknown error"))
      [] OTHER ->
           IF ~_assert_len_one(value[1]).ok THEN _assert_len_one(value[1])
           ELSE IF ty.k = "literal" THEN Ok(Raw(value[1][1]))
           ELSE IF ty.k = "bool" /\ e.gen = "kicad"
           THEN Ok(VBool(IsAtom(value[1][1]) /\ value[1][1].s = "true"))
           ELSE Convert(ty, value[1][1])

\* kwargs: the values rs of the keys, or the exception of the first key
\* that raises
Kwargs(keys, rs) ==
    IF \A i \in 1..Len(rs) : rs[i].ok
    THEN Ok([n \in {keys[i] : i \in 1..Len(keys)} |->
                rs[CHOOSE i \in 1..Len(keys) : keys[i] = n].v])
    ELSE rs[Min({i \in 1..Len(rs) : ~rs[i].ok})]

\* the body of the loop over parsed_kwargs, for the key kw of the class
\* whose fields are fs
ParseKey(e, fs, kw, occ) ==
    IF Named(fs, kw) # {} THEN _parse_field(e, Lookup(fs, kw), occ[kw])
    ELSE Raise("ValueError", "Encountered unknown field")

ParseKeys(e, fs, keys, occ) ==
    Kwargs(keys, [i \in 1..Len(keys) |-> ParseKey(e, fs, keys[i], occ)] \o <<>>)

\* ParseKwargs with the unknown-field test left out: an unknown key is
\* skipped
ParseKwargs_skipping(e, c, keys, occ) ==
    ParseKeys(e, Fields(c), Pick(keys, {i \in 1..Len(keys) : HasField(c, keys[i])}), occ)

\* the loop over parsed_kwargs
ParseKwargs(e, c, keys, occ) == ParseKeys(e, Fields(c), keys, occ)

IsTopLevel(c) == kicad_expr_tag_name(c) \in {"kicad_sch", "kicad_pcb"}

\* the tests of from_list before the loop over parsed_kwargs, in the order
\* they are made: _split_args raised, the document is short, the version
\* group is empty, check_version raised
FromListTests(top, c, items, sp) ==
    LET versioned == sp.ok /\ top /\ "version" \in DOMAIN sp.v.occ IN
    <<~sp.ok,
      top /\ Len(items) <= 4,
      versioned /\ Len(sp.v.occ["version"][1]) = 0,
      versioned /\ Len(sp.v.occ["version"][1]) > 0
          /\ ~check_version(c, sp.v.occ["version"][1][1]).ok,
      TRUE>>

\* from_list after the tests: the loop over parsed_kwargs, the loop over
\* the kicad_kw_bool fields and the call of cls
\* cls(*parsed_args, **kwargs)
CallCls(e, c, b) == Make(e, c, RawSeq(b.args).items, b.kw)

FromArgs(e, c, args, kws) ==
    IF ~kws.ok THEN kws
    ELSE CallCls(e, c, IF e.gen = "kicad" THEN ScanKwBool(Fields(c), args, kws.v)
                       ELSE [args |-> args, kw |-> kws.v])

\* what from_list gives after test number test held
FromListBy(test, e, c, sp) ==
    CASE test = 1 -> sp
      [] test = 2 -> Raise("EOFError", "Invalid file")
      [] test = 3 -> Raise("IndexError", "list index out of range")
      [] test = 4 -> check_version(c, sp.v.occ["version"][1][1])
      [] test = 5 -> FromArgs(e, c, sp.v.args, ParseKwargs(e, c, sp.v.keys, sp.v.occ))

\* from_list after _split_args
FromSplit(e, c, items, sp) ==
    FromListBy(First(FromListTests(IsTopLevel(c), c, items, sp)), e, c, sp)

\* KicadExpr.from_list(cls, expr)
FromList(e, c, items) == FromSplit(e, c, items, _split_args(e, items))

(***************************************************************************)
(* parser.from_list and parser.from_str: dispatch on the leading tag.      *)
(***************************************************************************)
\* the classes after class i whose tag name is the leading element
NextTagged(n, i) ==
    {j \in (i + 1)..Len(all_classes) :
        Raw(n.items[1]) = VStr(kicad_expr_tag_name(all_classes[j]))}

\* the result kept after a round that gave r, when no round ends the loop:
\* the last success, else the first error
Later(first, r) == IF r.ok \/ first = Ok(NoValue) THEN r ELSE first

\* Dispatch without the break: the last class that succeeds wins
RECURSIVE Dispatch_no_break(_, _, _, _)
Dispatch_no_break(e, n, i, first) ==
    IF NextTagged(n, i) = {}
    THEN IF first = Ok(NoValue)
         THEN Raise("ValueError", "Unknown KiCad expression")
         ELSE first
    ELSE Dispatch_no_break(e, n, Min(NextTagged(n, i)),
              Later(first, FromList(e, all_classes[Min(NextTagged(n, i))], Tail(n.items))))

\* the loop over all_classes, the rounds after class i: the classes whose
\* tag name differs are passed over; first is errors[0] if any
RECURSIVE Dispatch(_, _, _, _)
\* one round of the loop: r is what class j made of the arguments
Tried(r, e, n, j, first) ==
    IF r.ok THEN r
    ELSE Dispatch(e, n, j, IF first.ok THEN r ELSE first)

Dispatch(e, n, i, first) ==
    IF NextTagged(n, i) = {}
    THEN IF first.ok
         THEN Raise("ValueError", "Unknown KiCad expression")
         ELSE first
    ELSE Tried(FromList(e, all_classes[Min(NextTagged(n, i))], Tail(n.items)),
               e, n, Min(NextTagged(n, i)), first)

parser_from_list(e, n) ==
    IF Len(n.items) = 0 THEN Raise("IndexError", "list index out of range")
    ELSE Dispatch(e, n, 0, Ok(NoValue))

\* from_list(expr) on what the tokenizer gave
FromTree(e, got) == IF ~got.ok THEN got ELSE parser_from_list(e, got.v)

from_str(e, s) == FromTree(e, from_str_to_list(s))

(***************************************************************************)
(* Inputs of the record engine.                                            *)
(***************************************************************************)
\* most elements of an argument list handed to a record type's from_list
MaxItems == 3
\* most elements of a top-level document handed to from_list
MaxDocLen == 5

U0 == "00000000-0000-0000-0000-000000000000"

U1 == "123e4567-e89b-12d3-a456-426614174000"

U2 == "ffffffff-ffff-4fff-8fff-ffffffffffff"

Envs == {[gen |-> g, uuid |-> u] : g \in {"kicad", "types"}, u \in {U0, U2}}

KicadEnv == [gen |-> "kicad", uuid |-> U0]

\* the environments of the calls on given lists: the uuid is not looked at
GivenEnvs == {[gen |-> g, uuid |-> U0] : g \in {"kicad", "types"}}

F1 == Num(FALSE, 1, 0, 0)

F2 == Num(FALSE, 2, 0, 0)

F15 == Num(FALSE, 1, 500000, 0)

FNeg == Num(TRUE, 2, 540000, 0)

P12 == VSeq(<<F1, F2>>)

\* an argument the caller of a constructor leaves out
Absent == [k |-> "absent"]

Restrict(f) == [n \in {m \in DOMAIN f : f[m] # Absent} |-> f[n]]

KwCall(f) == [args |-> <<>>, kw |-> Restrict(f)]

Built(c, args, kw) == Make(KicadEnv, c, args, kw).v

\* constructor calls, per record type: positional and keyword arguments
Calls(c) ==
    CASE c = "PaperUser" ->
           {KwCall(f) : f \in [width : {Absent, F1, F15}, height : {Absent, F2}]}
      [] c = "PaperStandard" ->
           {KwCall(f) : f \in [format : {Absent, VStr("A3"), VStr("USLetter")},
                               orientation : {Absent, VStr("portrait")}]}
      [] c = "PolygonArc" ->
           {KwCall(f) : f \in [start : {P12}, mid : {P12, VSeq(<<N0, FNeg>>)},
                               end : {VSeq(<<F15, N0>>)}]}
      [] c = "XY" ->
           {KwCall(f) : f \in [x : {N0, F15, FNeg}, y : {N0, F1}]}
      [] c = "Pts" ->
           {KwCall(f) : f \in
              [xy : {Absent,
                     VSeq(<<Built("XY", <<F1, F2>>, <<>>)>>),
                     VSeq(<<Built("XY", <<F1, F2>>, <<>>), Built("XY", <<N0, FNeg>>, <<>>)>>)},
               arc : {Absent, VSeq(<<Built("PolygonArc", <<P12, P12, P12>>, <<>>)>>)}]}
      [] c = "Image" ->
           {KwCall(f) : f \in
              [at : {P12}, scale : {Absent, F15}, uuid : {Absent, VUuid(U1)},
               data : {Absent, VSeq(<<VStr("a")>>), VSeq(<<VStr("a"), VStr("b c")>>)}]}
      [] c = "TitleBlockComment" ->
           {KwCall(f) : f \in [number : {Absent, F2}, text : {Absent, VStr("a b")}]}
      [] c = "TitleBlock" ->
           {KwCall(f) : f \in
              [title : {Absent, VStr("t")}, rev : {Absent, VStr("r 1")},
               comment : {Absent,
                          VSeq(<<Built("TitleBlockComment", <<F1, VStr("c")>>, <<>>)>>)}]}
      [] c = "Justify" ->
           {[args |-> a, kw |-> <<>>] :
               a \in SeqsUpTo({VStr("left"), VStr("bottom"), VStr("mirror")}, 2)
                     \cup {<<VStr("right"), VStr("top"), VStr("mirror")>>}}
      [] c = "Font" ->
           {KwCall(f) : f \in [size : {Absent, P12}, thickness : {Absent, F15},
                               italic : {Absent, VBool(TRUE)}, bold : {Absent, VBool(TRUE)}]}
      [] c = "Effects" ->
           {KwCall(f) : f \in
              [font : {Absent, Built("Font", <<P12>>, <<>>)},
               justify : {Absent, Built("Justify", <<VStr("left")>>, <<>>),
                          Built("Justify", <<VStr("mirror")>>, <<>>)},
               hide : {Absent, VBool(TRUE)}]}
      [] c = "FillSimple" ->
           {KwCall(f) : f \in [type : {Absent, VStr("none"), VStr("outline")}]}
      [] c = "FillColor" ->
           {KwCall(f) : f \in [color : {Absent, VSeq(<<F1, F2, N0, F15>>)}]}
      [] c = "FillTypeColor" ->
           {KwCall(f) : f \in [color : {Absent, VSeq(<<F1, F2, N0, F15>>)}]}
      [] c = "LibSymbols" -> {[args |-> <<>>, kw |-> <<>>]}
      [] c = "General" ->
           {KwCall(f) : f \in [thickness : {Absent, F15}]}
      [] c = "Stackup" ->
           {KwCall(f) : f \in
              [copper_finish : {Absent, VStr("x")},
               dielectric_constraints : {Absent, VBool(TRUE)},
               edge_connector : {Absent, VStr("yes")},
               castellated_pads : {Absent, VBool(TRUE), VBool(FALSE)}]}
      [] c = "Schematic" ->
           {KwCall(f) : f \in
              [generator : {Absent, VStr("x")},
               uuid : {Absent, VUuid(U1)},
               paper : {Absent, Built("PaperUser", <<>>, <<>>),
                        Built("PaperStandard", <<VStr("A3"), VStr("portrait")>>, <<>>)},
               title_block : {Absent, Built("TitleBlock", <<>>, <<>>),
                              Built("TitleBlock", <<VStr("t")>>, <<>>)},
               image : {Absent, VSeq(<<Built("Image", <<P12>>, <<>>)>>)}]}

\* the record types instances are built of; Pcb is decoded only, its
\* encoder needs the layer and setup serializers of kicad/pcb
BuildClasses ==
    {"PaperUser", "PaperStandard", "PolygonArc", "XY", "Pts", "Image",
     "TitleBlockComment", "TitleBlock", "Justify", "Font", "Effects",
     "FillSimple", "FillColor", "FillTypeColor", "LibSymbols", "General",
     "Stackup", "Schematic"}

G(k, rest) == L(<<A(k)>> \o rest)

\* elements of argument lists handed to from_list directly, per record type
ItemPool(c) ==
    CASE c = "Font" ->
           {A("italic"), A("bold"), G("size", <<A("1"), A("2")>>),
            G("thickness", <<A("0.15")>>), G("colour", <<A("x")>>),
            G("0", <<A("1")>>)}
      [] c = "Justify" ->
           {A("left"), A("top"), A("mirror"), G("0", <<A("x")>>), G("foo", <<>>)}
      [] c = "Effects" ->
           {A("hide"), G("font", <<G("size", <<A("1"), A("2")>>), A("italic")>>),
            G("justify", <<A("left"), A("mirror")>>),
            G("font", <<G("bar", <<A("1")>>)>>), L(<<>>)}
      [] c = "Stackup" ->
           {G("dielectric_constraints", <<A("yes")>>),
            G("dielectric_constraints", <<A("no")>>),
            G("castellated_pads", <<A("yes")>>),
            G("copper_finish", <<A("x")>>), G("zz", <<A("1")>>)}
      [] c = "Schematic" ->
           {G("version", <<A(SchVersion)>>), G("version", <<A(PcbVersion)>>),
            G("generator", <<A("g")>>), G("foo", <<>>)}
      [] c = "Pcb" ->
           {G("version", <<A(PcbVersion)>>), G("version", <<A("20211014")>>),
            G("paper", <<Q("A4")>>), L(<<>>)}

GivenClasses == {"Font", "Justify", "Effects", "Stackup", "Schematic", "Pcb"}

GivenLists(c) ==
    SeqsUpTo(ItemPool(c), IF IsTopLevel(c) THEN MaxDocLen ELSE MaxItems)

Fill == TUnion(<<TRec("FillSimple"), TRec("FillColor"), TRec("FillTypeColor")>>)

\* the union types of the record types above
UnionTypes == {Paper, Fill, TOpt(TFloat), TOpt(TRec("TitleBlock"))}

Zeros == <<A("0"), A("0"), A("0"), A("0")>>

\* values handed to _parse_as: the argument lists of the occurrences of a
\* keyword
UnionValues ==
    {<< <<A("A4")>> >>, << <<Q("User"), A("1"), A("2")>> >>,
     << <<A("A4"), A("portrait")>> >>, << <<A("B7")>> >>,
     << <<A("1.5")>> >>, << <<A("abc")>> >>, << <<A("1")>>, <<A("2")>> >>,
     << <<G("title", <<A("t")>>)>> >>, << <<L(<<>>)>> >>,
     << <<G("type", <<A("none")>>)>> >>, << <<G("type", <<A("bogus")>>)>> >>,
     << <<G("color", Zeros)>> >>, << <<G("type", <<A("color")>>), G("color", Zeros)>> >>,
     << <<G("colour", Zeros)>> >>, << <<>> >>}

\* tagged lists handed to parser.from_list
TaggedLists ==
    {G("paper", <<Q("A4")>>), G("paper", <<Q("User"), A("1"), A("2")>>),
     G("paper", <<A("B7")>>), G("paper", <<>>), G("paper", <<G("foo", <<>>)>>),
     G("fill", <<G("type", <<A("none")>>)>>), G("fill", <<G("color", Zeros)>>),
     G("fill", <<G("type", <<A("color")>>), G("color", Zeros)>>),
     G("fill", <<G("type", <<A("bogus")>>)>>), G("fill", <<G("zz", <<>>)>>),
     G("font", <<A("italic")>>), G("justify", <<A("left")>>),
     G("nothing", <<>>), L(<<>>), L(<<L(<<>>)>>)}

(***************************************************************************)
(* The record engine as a state machine.                                   *)
(***************************************************************************)
Init == InitText

\* x = T(...): an instance is built by a call of the constructor
Construct ==
    /\ pc = "idle"
    /\ \E c \in BuildClasses, e \in Envs :
          \E r \in {Make(e, c, call.args, call.kw) : call \in Calls(c)} :
             /\ r.ok
             /\ cls' = c
             /\ env' = e
             /\ inst' = r.v
    /\ pc' = "built"
    /\ UNCHANGED <<expr, text, res, annotation, world>>

\* expr = x.to_list()
Encode ==
    /\ pc = "built"
    /\ expr' = L(to_list(inst))
    /\ pc' = "encoded"
    /\ UNCHANGED <<cls, inst, text, res, env, annotation, world>>

\* res = T.from_list(expr)
Decode ==
    /\ pc = "encoded"
    /\ res' = FromList(env, cls, expr.items)
    /\ pc' = "decoded"
    /\ UNCHANGED <<cls, inst, expr, text, env, annotation, world>>

\* res = T.from_list(expr) for a given argument list
DecodeGiven ==
    /\ pc = "idle"
    /\ \E c \in GivenClasses, e \in GivenEnvs :
          \E items \in GivenLists(c) :
             /\ cls' = c
             /\ env' = e
             /\ expr' = L(items)
             /\ res' = FromList(e, c, items)
    /\ pc' = "given_decoded"
    /\ UNCHANGED <<inst, text, annotation, world>>

\* text = serializer.to_str(x)
RenderDoc ==
    /\ pc = "built"
    /\ expr' = serializer_to_list(inst)
    /\ text' = from_list_to_str(expr')
    /\ pc' = "printed"
    /\ UNCHANGED <<cls, inst, res, env, annotation, world>>

\* res = parser.from_str(text)
ParseDoc ==
    /\ pc = "printed"
    /\ res' = from_str(env, text)
    /\ pc' = "parsed"
    /\ UNCHANGED <<cls, inst, expr, text, env, annotation, world>>

\* res = serializer.to_str(res), when the text was parsed
Reencode ==
    /\ pc = "parsed"
    /\ res.ok
    /\ res' = Ok(VStr(to_str(res.v)))
    /\ pc' = "reprinted"
    /\ UNCHANGED <<cls, inst, expr, text, env, annotation, world>>

\* res = parser.from_list(expr) for a given tagged list
DispatchGiven ==
    /\ pc = "idle"
    /\ \E n \in TaggedLists, e \in GivenEnvs :
          /\ env' = e
          /\ expr' = n
          /\ res' = parser_from_list(e, n)
    /\ pc' = "dispatched"
    /\ UNCHANGED <<cls, inst, text, annotation, world>>

\* res = _parse_as(annotation, value) for a union annotation
ParseAsUnion ==
    /\ pc = "idle"
    /\ \E u \in UnionTypes, value \in UnionValues, e \in GivenEnvs :
          /\ env' = e
          /\ annotation' = u
          /\ expr' = L([i \in 1..Len(value) |-> L(value[i])])
          /\ res' = _parse_as(e, u, value)
    /\ pc' = "unioned"
    /\ UNCHANGED <<cls, inst, text, world>>

Next ==
    \/ Construct
    \/ Encode
    \/ Decode
    \/ DecodeGiven
    \/ RenderDoc
    \/ ParseDoc
    \/ Reencode
    \/ DispatchGiven
    \/ ParseAsUnion

Spec == Init /\ [][Next]_vars

(***************************************************************************)
(* Argument lists as objects: what a call leaves in the list it was        *)
(* handed, and in the instance it was called on.                           *)
(***************************************************************************)
\* the fields of a record type that a method decorated with custom_parser
\* decodes
custom_parsers(c) == IF c = "Pcb" THEN {"layers"} ELSE {}

IsLayers(n) ==
    IsList(n) /\ Len(n.items) > 0 /\ IsAtom(n.items[1]) /\ n.items[1].s = "layers"

Without(items, i) == Pick(items, (1..Len(items)) \ {i})

\* the tuples of the layers, or the error of the first element that is not
\* a list of three or four items
LayerTuples(rest) ==
    LET bad == {i \in 1..Len(rest) :
                   \/ ~IsList(rest[i])
                   \/ Len(rest[i].items) < 3
                   \/ Len(rest[i].items) > 4} IN
    IF bad = {} THEN Ok(RawSeq(rest))
    ELSE IF ~IsList(rest[Min(bad)])
    THEN Raise("ValueError", "Expecting layer expression got")
    ELSE Raise("ValueError", "Expecting layer expression of length 3 or 4 got")

\* Pcb._list_to_layers(exprs): res is what it returns or raises, exprs the
\* content of the list it was handed once it has returned or raised
_list_to_layers(items) ==
    LET found == {i \in 1..Len(items) : IsLayers(items[i])} IN
    IF found = {}
    THEN [res |-> Raise("ValueError", "Not found"), exprs |-> items]
    ELSE [res |-> LayerTuples(Tail(items[Min(found)].items)),
          exprs |-> Without(items, Min(found))]

\* the content of the list T.from_list was handed, after the call: a
\* record type with a custom parser hands the list to that parser;
\* _split_args fills lists of its own (args = [], kwarg[1:]) and
\* parsed_args.remove(name) shortens the args list it made
ExprsAfter(c, items) ==
    IF "layers" \in custom_parsers(c) THEN _list_to_layers(items).exprs ELSE items

LayersOf(rest) == L(<<A("layers")>> \o rest)

Cu(n, name) == L(<<A(n), Q(name), A("signal")>>)

\* elements of the argument lists whose content is followed through a call
HandedPool(c) ==
    IF c = "Pcb"
    THEN {G("version", <<A(PcbVersion)>>), G("paper", <<Q("A4")>>), A("x"),
          LayersOf(<<Cu("0", "F.Cu"), Cu("31", "B.Cu")>>),
          LayersOf(<<Cu("0", "F.Cu"), A("y")>>),
          LayersOf(<<L(<<A("0"), Q("F.Cu")>>)>>), LayersOf(<<>>)}
    ELSE IF c = "Schematic"
    THEN {G("title_block", <<>>), G("uuid", <<A(U1)>>), G("generator", <<A("h")>>),
          G("generator", <<>>), G("generator", <<A("h"), A("i")>>), G("foo", <<>>)}
    ELSE IF c = "Via"
    THEN {G("remove_unused_layers", <<>>), G("remove_unused_layers", <<A("x")>>),
          G("free", <<>>), G("size", <<A("1")>>), A("locked")}
    ELSE IF c = "FootprintText"
    THEN {A("user"), Q("abc"), A("locked"), Q("locked"), A("hide"),
          G("tstamp", <<A(U1)>>)}
    ELSE IF c = "Stackup"
    THEN ItemPool(c)
            \cup {G("dielectric_constraints", <<>>),
                  G("dielectric_constraints", <<A("yes"), A("no")>>),
                  G("edge_plating", <<Q("yes")>>), A("castellated_pads")}
    ELSE ItemPool(c)

\* the record types of kicad/pcb whose argument lists are followed, decoded
\* by kicad/base.py
PcbClasses == {"Via", "FootprintText"}

HandedClasses == GivenClasses \cup PcbClasses

HandedEnvs(c) == IF c \in PcbClasses THEN {e \in GivenEnvs : e.gen = "kicad"} ELSE GivenEnvs

\* the first elements of the argument lists of a schematic
SchHead ==
    <<G("version", <<A(SchVersion)>>), G("generator", <<A("g")>>),
      G("paper", <<Q("A4")>>), G("lib_symbols", <<>>)>>

HandedLists(c) ==
    IF c = "Schematic"
    THEN {SchHead \o t : t \in SeqsUpTo(HandedPool(c), MaxItems)}
    ELSE SeqsUpTo(HandedPool(c), MaxItems)

\* expr = [...]: the caller builds an argument list
GiveArgs ==
    /\ pc = "idle"
    /\ \E c \in HandedClasses :
          \E e \in HandedEnvs(c), items \in HandedLists(c) :
             /\ cls' = c
             /\ env' = e
             /\ expr' = L(items)
    /\ pc' = "given"
    /\ UNCHANGED <<inst, text, res, annotation, world>>

\* res = T.from_list(expr) for a record type without custom parsers
FromListCall ==
    /\ pc = "given"
    /\ custom_parsers(cls) = {}
    /\ res' = FromList(env, cls, expr.items)
    /\ expr' = L(ExprsAfter(cls, expr.items))
    /\ pc' = "decoded"
    /\ UNCHANGED <<cls, inst, text, env, annotation, world>>

\* res = _split_args(expr)
SplitArgs ==
    /\ pc = "given"
    /\ res' = _split_args(env, expr.items)
    /\ pc' = "split"
    /\ UNCHANGED <<cls, inst, expr, text, env, annotation, world>>

\* the custom parser of Pcb.from_list(expr): Pcb._list_to_layers(expr)
ListToLayers ==
    /\ pc = "given"
    /\ "layers" \in custom_parsers(cls)
    /\ res' = _list_to_layers(expr.items).res
    /\ expr' = L(ExprsAfter(cls, expr.items))
    /\ pc' = "layers_parsed"
    /\ UNCHANGED <<cls, inst, text, env, annotation, world>>

\* x = T.from_list(expr), a second call on the same list; uuid4 returns
\* what it returns at that call
FromListAgain ==
    /\ pc = "decoded"
    /\ \E u \in {U0, U2} :
          /\ env' = [env EXCEPT !.uuid = u]
          /\ inst' = FromList(env', cls, expr.items).v
    /\ pc' = "decoded_again"
    /\ UNCHANGED <<cls, expr, text, res, annotation, world>>

\* x = res
Keep ==
    /\ pc = "decoded"
    /\ res.ok
    /\ inst' = res.v
    /\ pc' = "kept"
    /\ UNCHANGED <<cls, expr, text, res, env, annotation, world>>

\* expr = x.to_list(): sexpr = [] is filled from the fields read with
\* getattr
ToListCall ==
    /\ pc = "kept"
    /\ expr' = L(to_list(inst))
    /\ pc' = "listed"
    /\ UNCHANGED <<cls, inst, text, res, env, annotation, world>>

NextArgs ==
    \/ GiveArgs
    \/ SplitArgs
    \/ FromListCall
    \/ ListToLayers
    \/ FromListAgain
    \/ Keep
    \/ ToListCall

SpecArgs == Init /\ [][NextArgs]_vars

(***************************************************************************)
(* Design rules (kicad/design_rules.py) and the files of a project.        *)
(***************************************************************************)
MaxRules == 2

\* Severity: the members in the order of their declaration
Severities == <<"error", "warning", "ignore">>

Reverse(s) == [i \in 1..Len(s) |-> s[Len(s) + 1 - i]] \o <<>>

\* " ".join(words)
RECURSIVE JoinWords(_)
JoinWords(words) ==
    IF Len(words) = 0 THEN ""
    ELSE IF Len(words) = 1 THEN words[1].s
    ELSE words[1].s \o " " \o JoinWords(Tail(words))

\* Rule._v_constraint: a tuple as second half is joined, and a constraint
\* whose second half is a str is replaced by that str
_v_constraint(value) ==
    IF value.items[2].k = "seq"
    THEN VSeq(<<value.items[1], VStr(JoinWords(value.items[2].items))>>)
    ELSE value.items[2]

\* Rule(name, constraint, layer, severity, condition)
Rule(name, constraint, layer, severity, condition) ==
    VRec("Rule", [name |-> VStr(name), constraint |-> _v_constraint(constraint),
                  layer |-> layer, severity |-> VStr(severity),
                  condition |-> VStr(condition)])

\* Rule.__hash__: the hash of a tuple of the five fields, which is the same
\* for two rules when the tuples are equal
Rule__hash__(r) == <<r.f.constraint, r.f.name, r.f.layer, r.f.severity, r.f.condition>>

\* two keys of a dict are one key when their hashes agree and they are equal
SameKey(a, b) == Rule__hash__(a) = Rule__hash__(b) /\ fields_equal(a, b)

DesignRules(rules) == VRec("DesignRules", [version |-> VStr("1"), rules |-> VSeq(rules)])

\* list(dict.fromkeys(rules)): a key stays where it was first inserted
FromKeys(rules) ==
    Pick(rules, {i \in 1..Len(rules) : \A j \in 1..(i - 1) : ~SameKey(rules[j], rules[i])})

\* a noramlize that keeps the last of the equal rules
noramlize_last(dr) == DesignRules(Reverse(FromKeys(Reverse(dr.f.rules.items))))

\* DesignRules.noramlize
noramlize(dr) == DesignRules(FromKeys(dr.f.rules.items))

\* DesignRules.extend
extend(dr, o) ==
    IF o.k = "rec" /\ o.c = "DesignRules"
    THEN Ok(DesignRules(dr.f.rules.items \o o.f.rules.items))
    ELSE Raise("TypeError", "Cannot extend")

\* f"{value}" of a field of a rule
Fmt(v) == IF v = VNone THEN "None" ELSE v.s

\* f"{self.constraint[i]}": an item of the pair, or a character of the str
ConstraintPart(c, i) ==
    IF c.k = "seq" THEN Fmt(c.items[i])
    ELSE IF i <= Len(c.s) THEN Ch(c.s, i)
    ELSE "IndexError"

\* Rule.__str__ and DesignRules.__str__: the text of a rules file, kept as
\* the printed fields of its rules
Rule__str__(r) ==
    [name |-> Fmt(r.f.name), layer |-> Fmt(r.f.layer), severity |-> Fmt(r.f.severity),
     condition |-> Fmt(r.f.condition),
     constraint |-> <<ConstraintPart(r.f.constraint, 1), ConstraintPart(r.f.constraint, 2)>>]

DesignRules__str__(dr) ==
    [t |-> "rules", version |-> dr.f.version.s,
     rules |-> [i \in 1..Len(dr.f.rules.items) |-> Rule__str__(dr.f.rules.items[i])] \o <<>>]

\* a file that is not there, and a file that holds no design rules
NoFile == [t |-> "nofile", version |-> "", rules |-> <<>>]

Garbage == [t |-> "garbage", version |-> "", rules |-> <<>>]

\* load_design_rules(path): the rules of a rules file
RuleOfText(rt) ==
    Rule(rt.name, VSeq(<<VStr(rt.constraint[1]), VSeq(<<VStr(rt.constraint[2])>>)>>),
         VStr(rt.layer), rt.severity, rt.condition)

load_design_rules(content) ==
    IF content.t = "nofile" THEN Raise("FileNotFoundError", "No such file or directory")
    ELSE IF content.t # "rules" THEN Raise("ValueError", "not a design rules file")
    ELSE Ok(DesignRules([i \in 1..Len(content.rules) |-> RuleOfText(content.rules[i])] \o <<>>))

Clearance == VSeq(<<VStr("clearance"), VSeq(<<VStr("min"), VStr("1mm")>>)>>)

RulePool ==
    {Rule("a", Clearance, VNone, "warning", ""),
     Rule("a", Clearance, VStr("F.Cu"), "warning", ""),
     Rule("b", Clearance, VNone, "error", "A.Type == 'pad'"),
     Rule("b", VSeq(<<VStr("hole_size"), VStr("min 1mm")>>), VNone, "error", "")}

RuleLists == SeqsUpTo(RulePool, MaxRules)

\* the rules files of a project: none, a malformed one, the rules printed
FileRules ==
    {Rule("a", Clearance, VStr("F.Cu"), "warning", ""),
     Rule("b", Clearance, VStr("B.Cu"), "error", "A.Type == 'pad'")}

RuleFiles ==
    {NoFile, Garbage}
        \cup {DesignRules__str__(DesignRules(rs)) : rs \in SeqsUpTo(FileRules, MaxRules)}

(***************************************************************************)
(* custom_design_rules (kicad/checker/__init__.py): a context manager.     *)
(* files is the project directory and the custom rules file, self the      *)
(* frame of the generator, before the files as they were when the context  *)
(* was entered.                                                            *)
(***************************************************************************)
CustomPaths == {"None", "custom.kicad_dru", "custom.txt"}

\* project_rules.extend(custom_rules); project_rules.noramlize();
\* str(project_rules)
Merged(project_rules, custom_rules) ==
    DesignRules__str__(noramlize(extend(project_rules, custom_rules).v))

\* the try block of the branch that finds the rules file of the project
MergeInto(fl) ==
    IF ~load_design_rules(fl.dru).ok THEN [res |-> load_design_rules(fl.dru), files |-> fl]
    ELSE IF ~load_design_rules(fl.custom).ok
    THEN [res |-> load_design_rules(fl.custom), files |-> fl]
    ELSE [res |-> Ok(NoValue),
          files |-> [fl EXCEPT !.dru = Merged(load_design_rules(fl.dru).v,
                                              load_design_rules(fl.custom).v)]]

\* the finally block of that branch
WriteBack(fl, original) == [fl EXCEPT !.dru = original]

\* shutil.copy(custom_rules_path, dest)
Copy(fl) ==
    IF fl.custom = NoFile
    THEN [res |-> Raise("FileNotFoundError", "No such file or directory"), files |-> fl]
    ELSE [res |-> Ok(NoValue), files |-> [fl EXCEPT !.dru = fl.custom]]

\* a finally block that leaves the copy where it is
Unlink_never(fl) == fl

\* the finally block of the branch that copies: if dest.exists(): dest.unlink()
Unlink(fl) == IF fl.dru # NoFile THEN [fl EXCEPT !.dru = NoFile] ELSE fl

\* a project directory and a path to custom rules
GiveProject ==
    /\ pc = "idle"
    /\ \E pro \in BOOLEAN, dru \in RuleFiles, custom \in RuleFiles, path \in CustomPaths :
          /\ files' = [pro |-> pro, dru |-> dru, custom |-> custom]
          /\ self' = [custom_rules_path |-> path]
    /\ before' = files'
    /\ pc' = "project"
    /\ UNCHANGED <<res, original_text, that, engine>>

\* with custom_design_rules(custom_rules_path, project_path): up to the
\* yield, or to the exception that leaves the generator
Enter ==
    /\ pc = "project"
    /\ CASE self.custom_rules_path = "None" ->
              /\ pc' = "yielded"
              /\ UNCHANGED <<res, files, original_text>>
         [] self.custom_rules_path = "custom.txt" ->
              /\ res' = Raise("ValueError", "The custom design rules have to be in kicad_dru format.")
              /\ pc' = "raised"
              /\ UNCHANGED <<files, original_text>>
         [] OTHER ->
              IF ~files.pro
              THEN /\ res' = Raise("FileNotFoundError", "Couldn't find project file")
                   /\ pc' = "raised"
                   /\ UNCHANGED <<files, original_text>>
              ELSE IF files.dru # NoFile
              THEN /\ original_text' = files.dru
                   /\ res' = MergeInto(files).res
                   /\ files' = IF res'.ok THEN MergeInto(files).files
                               ELSE WriteBack(MergeInto(files).files, original_text')
                   /\ pc' = IF res'.ok THEN "yielded_merged" ELSE "raised"
              ELSE /\ res' = Copy(files).res
                   /\ files' = IF res'.ok THEN Copy(files).files ELSE Unlink(Copy(files).files)
                   /\ pc' = IF res'.ok THEN "yielded_copied" ELSE "raised"
                   /\ UNCHANGED original_text
    /\ UNCHANGED <<self, before, that, engine>>

\* the body of the with statement returns or raises, and the generator runs
\* to its end
Leave ==
    /\ pc \in {"yielded", "yielded_merged", "yielded_copied"}
    /\ \E raises \in BOOLEAN :
          res' = IF raises THEN Raise("CalledProcessError", "kicad-cli") ELSE Ok(NoValue)
    /\ files' = CASE pc = "yielded_merged" -> WriteBack(files, original_text)
                  [] pc = "yielded_copied" -> Unlink(files)
                  [] OTHER -> files
    /\ pc' = "left"
    /\ UNCHANGED <<self, original_text, before, that, engine>>

NextChecker == GiveProject \/ Enter \/ Leave

SpecChecker == Init /\ [][NextChecker]_vars

(***************************************************************************)
(* CheckResult (kicad/checker/__init__.py): the violations of a report are *)
(* filtered and sorted when the result is built.                           *)
(***************************************************************************)
MaxViolations == 3

MaxSheets == 2

\* members.index(s) for a member s of Severity
SeverityIndex(s) == CHOOSE i \in 1..Len(Severities) : Severities[i] = s

\* a comparison that puts a severity before itself
Severity__le__strict(a, b) == SeverityIndex(a) < SeverityIndex(b)

\* Severity.__le__
Severity__le__(a, b) == SeverityIndex(a) <= SeverityIndex(b)

\* Severity.__lt__, which compares with <= as __le__ does
Severity__lt__(a, b) == SeverityIndex(a) <= SeverityIndex(b)

\* ISLT of list.sort on the keys of two violations
KeyLt(v, w) == Severity__lt__(v.severity, w.severity)

\* count_run of list.sort: the last index of the run that starts the list,
\* a run going down when the second key is less than the first
RECURSIVE RunEnd(_, _, _)
RunEnd(a, i, descending) ==
    IF i > Len(a) THEN i - 1
    ELSE IF KeyLt(a[i], a[i - 1]) = descending THEN RunEnd(a, i + 1, descending)
    ELSE i - 1

\* the binary search of binarysort: where the pivot goes among a[l..r-1]
RECURSIVE BinSearch(_, _, _, _)
BinSearch(a, pivot, l, r) ==
    IF l >= r THEN l
    ELSE IF KeyLt(pivot, a[l + (r - l) \div 2])
    THEN BinSearch(a, pivot, l, l + (r - l) \div 2)
    ELSE BinSearch(a, pivot, l + (r - l) \div 2 + 1, r)

InsertAt(a, start, l) ==
    SubSeq(a, 1, l - 1) \o <<a[start]>> \o SubSeq(a, l, start - 1)
        \o SubSeq(a, start + 1, Len(a))

\* binarysort of list.sort: a[1..start-1] is sorted, the rest is inserted
RECURSIVE binarysort(_, _)
binarysort(a, start) ==
    IF start > Len(a) THEN a
    ELSE binarysort(InsertAt(a, start, BinSearch(a, a[start], 1, start)), start + 1)

RunReversed(a, n) == Reverse(SubSeq(a, 1, n)) \o SubSeq(a, n + 1, Len(a))

SortRun(a, descending, n) == binarysort(IF descending THEN RunReversed(a, n) ELSE a, n + 1)

\* sorted(violations, key=lambda v: v.severity) for a list shorter than 64:
\* one run is counted, reversed when it goes down, and the rest inserted
sorted(a) ==
    IF Len(a) < 2 THEN a
    ELSE SortRun(a, KeyLt(a[2], a[1]), RunEnd(a, 3, KeyLt(a[2], a[1])))

\* [v for v in violations if v.severity <= level]
AtLevel(violations, level) ==
    Pick(violations, {i \in 1..Len(violations) : Severity__le__(violations[i].severity, level)})

Filtered(violations, level) == sorted(AtLevel(violations, level))

None == [t |-> "None"]

FilterSheets(sheets, level) ==
    [i \in 1..Len(sheets) |-> [violations |-> Filtered(sheets[i].violations, level)]] \o <<>>

\* CheckResult.filter_by_level
filter_by_level(value) ==
    [level |-> value.level,
     dr |-> IF value.dr = None THEN None
            ELSE [t |-> "drc", violations |-> Filtered(value.dr.violations, value.level)],
     er |-> IF value.er = None THEN None
            ELSE [t |-> "erc", sheets |-> FilterSheets(value.er.sheets, value.level)]]

Violation(severity, description) == [severity |-> severity, description |-> description]

ViolationPool == {Violation(Severities[i], d) : i \in 1..Len(Severities), d \in {"x", "y"}}

SheetViolations == {Violation(Severities[i], "x") : i \in 1..Len(Severities)}

Drc(violations) == [t |-> "drc", violations |-> violations]

Erc(lists) == [t |-> "erc", sheets |-> [i \in 1..Len(lists) |-> [violations |-> lists[i]]] \o <<>>]

DrcReports == {Drc(vs) : vs \in SeqsUpTo(ViolationPool, MaxViolations)}

\* the violations of one sheet
SheetLists ==
    {<<>>, <<Violation("warning", "x"), Violation("error", "x")>>,
     <<Violation("ignore", "x"), Violation("warning", "x"), Violation("error", "x")>>,
     <<Violation("warning", "x"), Violation("warning", "y"), Violation("error", "y"),
       Violation("ignore", "y")>>}

ErcReports == {Erc(ls) : ls \in SeqsUpTo(SheetLists, MaxSheets)}

\* what check() hands to CheckResult: the report of the board, of the
\* schematic, or of both
Reports ==
    {[dr |-> d, er |-> None] : d \in DrcReports}
        \cup {[dr |-> None, er |-> e] : e \in ErcReports}
        \cup {[dr |-> Drc(vs), er |-> Erc(<<ws>>)] :
                 vs \in SeqsUpTo(SheetViolations, MaxViolations), ws \in SheetLists}

\* self = CheckResult(dr=dr, er=er, level=level)
BuildResult ==
    /\ pc = "idle"
    /\ \E r \in Reports, i \in 1..Len(Severities) :
          /\ before' = [level |-> Severities[i], dr |-> r.dr, er |-> r.er]
          /\ self' = filter_by_level(before')
    /\ pc' = "checked"
    /\ UNCHANGED <<res, files, original_text, that, engine>>

NextResult == BuildResult

SpecResult == Init /\ [][NextResult]_vars

(***************************************************************************)
(* DesignRules as objects: self is the rules a method is called on, that   *)
(* the rules handed to extend, before the two as they were given.          *)
(***************************************************************************)
\* self = DesignRules(rules=...), that = DesignRules(rules=...) or None
GiveRules ==
    /\ pc = "idle"
    /\ \E rs \in RuleLists, os \in RuleLists \cup {<<None>>} :
          /\ self' = DesignRules(rs)
          /\ that' = IF os = <<None>> THEN VNone ELSE DesignRules(os)
    /\ before' = [self |-> self', that |-> that']
    /\ pc' = "rules"
    /\ UNCHANGED <<res, files, original_text, engine>>

\* self.extend(that): other.rules is read, self.rules grows
Extend ==
    /\ pc = "rules"
    /\ res' = extend(self, that)
    /\ self' = IF res'.ok THEN res'.v ELSE self
    /\ pc' = "extended"
    /\ UNCHANGED <<that, before, files, original_text, engine>>

\* self.noramlize(), and self.noramlize() once more
Normalize ==
    /\ pc \in {"rules", "extended", "normalized"}
    /\ self' = noramlize(self)
    /\ res' = Ok(self')
    /\ pc' = IF pc = "normalized" THEN "normalized_twice" ELSE "normalized"
    /\ UNCHANGED <<that, before, files, original_text, engine>>

NextRules == GiveRules \/ Extend \/ Normalize

SpecRules == Init /\ [][NextRules]_vars

(***************************************************************************)
(* SchematicGroup: kicad/schematic_group/__init__.py ("package") and       *)
(* kicad/schematic_group.py ("module"). self is the group, before its      *)
(* sizes when it was made and the calls counted since.                     *)
(***************************************************************************)
MaxCalls == 2

\* PurePosixPath(s).parts
RECURSIVE Parts(_)
Parts(s) ==
    IF s = "" THEN <<>>
    ELSE IF IndexOf(s, "/", 1) = 0 THEN <<s>>
    ELSE IF IndexOf(s, "/", 1) = 1 THEN <<"/">> \o Parts(SubSeq(s, 2, Len(s)))
    ELSE <<SubSeq(s, 1, IndexOf(s, "/", 1) - 1)>>
             \o Parts(SubSeq(s, IndexOf(s, "/", 1) + 1, Len(s)))

is_absolute(s) == Len(s) > 0 /\ Ch(s, 1) = "/"

\* name.rfind(".") + 1
LastDot(name) ==
    IF \E i \in 1..Len(name) : Ch(name, i) = "."
    THEN CHOOSE i \in 1..Len(name) :
            Ch(name, i) = "." /\ \A j \in (i + 1)..Len(name) : Ch(name, j) # "."
    ELSE 0

StemOf(name) ==
    IF 1 < LastDot(name) /\ LastDot(name) < Len(name)
    THEN SubSeq(name, 1, LastDot(name) - 1)
    ELSE name

\* PurePath.stem
Stem(s) == IF Parts(s) = <<>> THEN "" ELSE StemOf(Parts(s)[Len(Parts(s))])

_check_path(path) ==
    IF \E i \in 1..Len(Parts(path)) : Parts(path)[i] = ".."
    THEN Raise("ValueError", "Path must be in the current directory")
    ELSE IF is_absolute(path)
    THEN Raise("ValueError", "Given an absolute path, path must be relative to the current directory.")
    ELSE Ok(NoValue)

SheetInstancesPath(name, page) == [name |-> name, page |-> page]

SubSheetInstanceProject(name, paths) == [name |-> name, paths |-> paths]

SubSheetInstances(projects) == [t |-> "instances", projects |-> projects]

Sheet(name, file, instances) == [name |-> name, file |-> file, instances |-> instances]

\* what one sheet adds to page_number: int(n), or nothing when there are no
\* instances, on IndexError and on ValueError
PageOf(sheet) ==
    IF sheet.instances = None THEN 0
    ELSE IF Len(sheet.instances.projects) = 0 THEN 0
    ELSE IF Len(sheet.instances.projects[1].paths) = 0 THEN 0
    ELSE IF Len(sheet.instances.projects[1].paths[1].page) = 0 THEN 0
    ELSE IF ~AllDigits(sheet.instances.projects[1].paths[1].page) THEN 0
    ELSE DigitsVal(sheet.instances.projects[1].paths[1].page)

Max(S) == CHOOSE i \in S : \A j \in S : j <= i

page_number(sheets) == Max({0} \cup {PageOf(sheets[i]) : i \in 1..Len(sheets)})

\* remove_ref_number: the reference without the digits at its end
RECURSIVE remove_ref_number(_)
remove_ref_number(ref) ==
    IF Len(ref) > 0 /\ Ch(ref, Len(ref)) \in DigitChars
    THEN remove_ref_number(SubSeq(ref, 1, Len(ref) - 1))
    ELSE ref

\* the loop over sch.symbols
Cleaned(sch) ==
    [symbols |-> [i \in 1..Len(sch.symbols) |->
                     [reference |-> remove_ref_number(sch.symbols[i].reference),
                      instances |-> None]] \o <<>>]

NewSheet(g, path) ==
    Sheet(Stem(path), path,
          SubSheetInstances(<<SubSheetInstanceProject(
              Stem(g.top_level.filepath),
              <<SheetInstancesPath("/" \o g.top_level.uuid,
                                   IntStr(page_number(g.top_level.sheets) + 1))>>)>>))

AppendSheet(g, sheet) == [g EXCEPT !.top_level.sheets = Append(@, sheet)]

AppendSub(g, path, sch) ==
    [g EXCEPT !.sub_schematics = Append(@, [filepath |-> path, data |-> sch])]

\* output_path == self._top_level.filepath or output_path in (s.filepath ...)
InGroup(g, path) ==
    \/ path = g.top_level.filepath
    \/ \E i \in 1..Len(g.sub_schematics) : g.sub_schematics[i].filepath = path

Appended(g, path, sch) == AppendSub(AppendSheet(g, NewSheet(g, path)), path, Cleaned(sch))

\* an add_sub_schematic that looks at the path once the sheet is appended
add_sub_schematic_late(g, path, sch) ==
    IF g.gen = "module" /\ ~_check_path(path).ok
    THEN [res |-> _check_path(path), group |-> AppendSheet(g, NewSheet(g, path)), sch |-> sch]
    ELSE [res |-> Ok(NoValue), group |-> Appended(g, path, sch), sch |-> Cleaned(sch)]

\* an add_sub_schematic that runs the loop over sch.symbols first
add_sub_schematic_cleaning(g, path, sch) ==
    IF g.gen = "module" /\ ~_check_path(path).ok
    THEN [res |-> _check_path(path), group |-> g, sch |-> Cleaned(sch)]
    ELSE IF g.gen = "module" /\ InGroup(g, path)
    THEN [res |-> Raise("ValueError", "File already exists in schematic group."),
          group |-> g, sch |-> Cleaned(sch)]
    ELSE [res |-> Ok(NoValue), group |-> Appended(g, path, sch), sch |-> Cleaned(sch)]

\* SchematicGroup.add_sub_schematic: what it returns or raises, the group
\* afterwards and the schematic it was passed afterwards
add_sub_schematic(g, path, sch) ==
    IF g.gen = "module" /\ ~_check_path(path).ok
    THEN [res |-> _check_path(path), group |-> g, sch |-> sch]
    ELSE IF g.gen = "module" /\ InGroup(g, path)
    THEN [res |-> Raise("ValueError", "File already exists in schematic group."),
          group |-> g, sch |-> sch]
    ELSE [res |-> Ok(NoValue), group |-> Appended(g, path, sch), sch |-> Cleaned(sch)]

TopPath == "top.kicad_sch"

Paged(page) ==
    SubSheetInstances(<<SubSheetInstanceProject("top", <<SheetInstancesPath("/u", page)>>)>>)

\* the sheets a top-level schematic holds when the group is made
ExistingSheets ==
    {Sheet("s1", "s1.kicad_sch", Paged("2")), Sheet("s1", "s1.kicad_sch", Paged("x")),
     Sheet("s1", "s1.kicad_sch", SubSheetInstances(<<>>)), Sheet("s1", "s1.kicad_sch", None)}

SubPaths ==
    {"test.kicad_sch", "folder/test.kicad_sch", TopPath, "s1.kicad_sch", "../x.kicad_sch",
     "/x.kicad_sch"}

SubSchematics ==
    {[symbols |-> <<>>],
     [symbols |-> <<[reference |-> "R1", instances |-> SubSheetInstances(<<>>)]>>]}

\* the sub-schematics __init__ loads, one for every sheet of the top level
Loaded(sheets) ==
    [i \in 1..Len(sheets) |-> [filepath |-> sheets[i].file, data |-> [symbols |-> <<>>]]] \o <<>>

\* group = SchematicGroup(...)
NewGroup ==
    /\ pc = "idle"
    /\ \E gen \in {"package", "module"}, sheets \in SeqsUpTo(ExistingSheets, 1) :
          self' = [gen |-> gen,
                   top_level |-> [filepath |-> TopPath, uuid |-> env.uuid, sheets |-> sheets],
                   sub_schematics |-> IF gen = "package" THEN Loaded(sheets) ELSE <<>>]
    /\ before' = [sheets |-> Len(self'.top_level.sheets),
                  sub_schematics |-> Len(self'.sub_schematics), calls |-> 0, ok |-> 0]
    /\ pc' = "group"
    /\ UNCHANGED <<res, that, files, original_text, engine>>

\* group.add_sub_schematic(path, sch)
AddSubSchematic ==
    /\ pc = "group"
    /\ before.calls < MaxCalls
    /\ \E path \in SubPaths, sch \in SubSchematics :
          /\ res' = add_sub_schematic(self, path, sch).res
          /\ self' = add_sub_schematic(self, path, sch).group
          /\ that' = [path |-> path, sch |-> sch, group |-> self,
                      after |-> add_sub_schematic(self, path, sch).sch]
    /\ before' = [before EXCEPT !.calls = @ + 1, !.ok = IF res'.ok THEN @ + 1 ELSE @]
    /\ UNCHANGED <<pc, files, original_text, engine>>

NextGroup == NewGroup \/ AddSubSchematic

SpecGroup == Init /\ [][NextGroup]_vars

(***************************************************************************)
(* Zone: the fields layer and layers of the two declarations of the class, *)
(* kicad/pcb/common.py and types/pcb/common.py.                            *)
(***************************************************************************)
\* most entries of the layers a zone is given
MaxLayers == 2

LayerNames == {"F.Cu", "B.Cu", "In1.Cu", "*.Cu"}

\* Zone._layers, the validator of layers (pre=True) of types/pcb/common.py
Zone_layers(v) == IF v.k = "str" THEN VSeq(<<v>>) ELSE v

\* Zone.__post_init__ of types/pcb/common.py
Zone__post_init__(z) ==
    IF z.layer # VNone THEN [z EXCEPT !.layers = VSeq(<<z.layer>>)] ELSE z

\* Zone(layer=..., layers=...): the declaration of kicad/pcb/common.py has
\* neither validator nor __post_init__
Zone(gen, layer, layers) ==
    IF gen = "types"
    THEN LET z == Zone__post_init__([layer |-> layer, layers |-> layers])
         IN [z EXCEPT !.layers = Zone_layers(@)]
    ELSE [layer |-> layer, layers |-> layers]

GivenLayers(gen) ==
    {VSeq(ls) : ls \in SeqsUpTo({VStr(n) : n \in LayerNames}, MaxLayers)}
    \cup (IF gen = "types" THEN {VStr(n) : n \in LayerNames} ELSE {})

\* zone = Zone(layer=..., layers=...)
NewZone ==
    /\ pc = "idle"
    /\ \E gen \in {"kicad", "types"}, layer \in {VNone} \cup {VStr(n) : n \in LayerNames} :
          \E layers \in GivenLayers(gen) :
             /\ before' = [gen |-> gen, layer |-> layer, layers |-> layers]
             /\ self' = Zone(gen, layer, layers)
    /\ pc' = "zone"
    /\ UNCHANGED <<res, that, files, original_text, engine>>

NextZone == NewZone

SpecZone == Init /\ [][NextZone]_vars

(***************************************************************************)
(* Two custom_design_rules contexts on one project directory, as two check *)
(* runs with custom rules make them.  Nothing in the generator locks the   *)
(* rules file, so the file operations of the two generators interleave.    *)
(* self maps a context to its frame: where the generator stands (at), its  *)
(* custom rules and its original_text; that tells whether one context was  *)
(* entered while the other was open.                                       *)
(***************************************************************************)
Contexts == {1, 2}

Other(p) == CHOOSE q \in Contexts : q # p

\* the custom rules files handed to the two contexts
CustomFiles == {DesignRules__str__(DesignRules(<<r>>)) : r \in FileRules}

Closed == {"start", "left", "raised"}

\* the project directory as the generator of context p sees it
FilesOf(p) == [files EXCEPT !.custom = self[p].custom]

\* the rules file of the project after a step of a generator
Dest(fl) == [files EXCEPT !.dru = fl.dru]

GiveTwo ==
    /\ pc = "idle"
    /\ \E dru \in RuleFiles, c1 \in CustomFiles, c2 \in CustomFiles :
          /\ files' = [pro |-> TRUE, dru |-> dru, custom |-> NoFile]
          /\ self' = [p \in Contexts |->
                        [at |-> "start", custom |-> IF p = 1 THEN c1 ELSE c2,
                         original_text |-> NoFile]]
    /\ before' = files'
    /\ that' = FALSE
    /\ pc' = "overlap"
    /\ UNCHANGED <<res, original_text, engine>>

\* if dest.exists():
DestExists ==
    /\ pc = "overlap"
    /\ \E p \in Contexts :
          /\ self[p].at = "start"
          /\ self' = [self EXCEPT ![p].at = IF files.dru # NoFile THEN "found" ELSE "missing"]
          /\ that' = (that \/ self[Other(p)].at \notin Closed)
    /\ UNCHANGED <<pc, res, files, original_text, before, engine>>

\* original_text = dest.read_text(), before the try block
ReadText ==
    /\ pc = "overlap"
    /\ \E p \in Contexts :
          /\ self[p].at = "found"
          /\ self' = IF files.dru = NoFile
                     THEN [self EXCEPT ![p].at = "raised"]
                     ELSE [self EXCEPT ![p].at = "read", ![p].original_text = files.dru]
    /\ UNCHANGED <<pc, res, files, original_text, before, that, engine>>

\* the try block of the branch that found the rules file, up to the yield,
\* and the finally block when loading fails
TryMerge ==
    /\ pc = "overlap"
    /\ \E p \in Contexts :
          /\ self[p].at = "read"
          /\ IF MergeInto(FilesOf(p)).res.ok
             THEN /\ files' = Dest(MergeInto(FilesOf(p)).files)
                  /\ self' = [self EXCEPT ![p].at = "yielded_merged"]
             ELSE /\ files' = Dest(WriteBack(FilesOf(p), self[p].original_text))
                  /\ self' = [self EXCEPT ![p].at = "raised"]
    /\ UNCHANGED <<pc, res, original_text, before, that, engine>>

\* the try block of the branch that found no rules file, up to the yield
TryCopy ==
    /\ pc = "overlap"
    /\ \E p \in Contexts :
          /\ self[p].at = "missing"
          /\ files' = Dest(Copy(FilesOf(p)).files)
          /\ self' = [self EXCEPT ![p].at = "yielded_copied"]
    /\ UNCHANGED <<pc, res, original_text, before, that, engine>>

\* the body ends and the finally block writes original_text
FinallyWrite ==
    /\ pc = "overlap"
    /\ \E p \in Contexts :
          /\ self[p].at = "yielded_merged"
          /\ files' = Dest(WriteBack(FilesOf(p), self[p].original_text))
          /\ self' = [self EXCEPT ![p].at = "left"]
    /\ UNCHANGED <<pc, res, original_text, before, that, engine>>

\* the body ends and the finally block unlinks the copy
FinallyUnlink ==
    /\ pc = "overlap"
    /\ \E p \in Contexts :
          /\ self[p].at = "yielded_copied"
          /\ files' = Dest(Unlink(FilesOf(p)))
          /\ self' = [self EXCEPT ![p].at = "left"]
    /\ UNCHANGED <<pc, res, original_text, before, that, engine>>

NextOverlap ==
    \/ GiveTwo
    \/ DestExists
    \/ ReadText
    \/ TryMerge
    \/ TryCopy
    \/ FinallyWrite
    \/ FinallyUnlink

SpecOverlap == Init /\ [][NextOverlap]_vars

(***************************************************************************)
(* The claims.                                                             *)
(***************************************************************************)
\* the fields of record type c that carry the grammar tag
Tagged(c, tag) == {Fields(c)[i].name : i \in {j \in 1..Len(Fields(c)) : get_meta(Fields(c)[j], tag)}}

AtomCount(items, name) == Cardinality({i \in 1..Len(items) : items[i] = A(name)})

\* C1: decoding what the encoder wrote gives back an equal instance, for
\* every instance the constructor of a record type accepts:
\* T.from_list(x.to_list()) == x.
C1_RoundTrip ==
    (pc = "decoded" /\ env.gen = "kicad") => (res.ok /\ fields_equal(res.v, inst))

\* C2: tokenizing the printed text of a tree gives back the same tree, leaf
\* for leaf: from_str_to_list(from_list_to_str(t)) == t.
C2_TextRoundTrip ==
    pc = "reparsed" => (res.ok /\ TreeEq(res.v, expr))

\* a direct element that is a keyword group whose tag is no field of c
UnknownGroup(c, n) ==
    IsList(n) /\ Len(n.items) > 0 /\ IsAtom(n.items[1]) /\ ~HasField(c, n.items[1].s)

BadVersionDoc ==
    /\ pc = "given_decoded"
    /\ IsTopLevel(cls)
    /\ \E i \in 1..Len(expr.items) :
          /\ IsList(expr.items[i]) /\ Len(expr.items[i].items) >= 2
          /\ expr.items[i].items[1] = A("version")
          /\ expr.items[i].items[2] # A(FieldOf(cls, "version").def.s)
          /\ \A j \in 1..(i - 1) :
                ~(IsList(expr.items[j]) /\ Len(expr.items[j].items) >= 1
                  /\ expr.items[j].items[1] = A("version"))

UnionValue == [i \in 1..Len(expr.items) |-> expr.items[i].items]

\* what member i of the union makes of the value on its own
Member(i) == _parse_as(env, annotation.subs[i], UnionValue)

\* C5: _parse_as on a union returns the result of the first member that
\* does not fail, whatever the failures of the members before it, and the
\* first member's error when every member fails.
C5_UnionResolution ==
    pc = "unioned" =>
        LET good == {i \in 1..Len(annotation.subs) : Member(i).ok} IN
        res = IF good = {} THEN Member(1)
              ELSE Member(CHOOSE i \in good : \A j \in good : i <= j)

\* the classes of the catalog whose tag is the leading atom of expr
Matching ==
    {i \in 1..Len(all_classes) :
        Len(expr.items) > 0 /\ Raw(expr.items[1]) = VStr(kicad_expr_tag_name(all_classes[i]))}

Candidate(i) == FromList(env, all_classes[i], Tail(expr.items))

\* C6: parser.from_list returns what the first class in catalog order with a
\* matching tag and a successful from_list returns, and raises the error of
\* the first matching class when every matching class fails.
C6_TagDispatch ==
    (pc = "dispatched" /\ Matching # {}) =>
        LET good == {i \in Matching : Candidate(i).ok} IN
        res = IF good = {} THEN Candidate(CHOOSE i \in Matching : \A j \in Matching : i <= j)
              ELSE Candidate(CHOOSE i \in good : \A j \in good : i <= j)

C6_Witness ==
    /\ pc = "dispatched"
    /\ expr = G("paper", <<Q("A4")>>)
    /\ ~FromList(env, "PaperUser", Tail(expr.items)).ok
    /\ res.ok
    /\ res.v.c = "PaperStandard"

\* C7: a kicad_kw_bool field is written as the bare atom of its name when
\* true and as nothing when false; decoding an argument list that holds the
\* atom, before or after the first keyword group, gives the field true; a
\* kicad_bool_yes_no field that is false is written as [name, "no"].
C7_BooleanEncodings ==
    /\ pc = "encoded" =>
          /\ \A f \in Tagged(cls, "kicad_kw_bool") :
                AtomCount(expr.items, f) = IF inst.f[f].b THEN 1 ELSE 0
          /\ \A f \in Tagged(cls, "kicad_bool_yes_no") :
                ~inst.f[f].b => \E i \in 1..Len(expr.items) : expr.items[i] = G(f, <<A("no")>>)
    /\ (pc = "given_decoded" /\ env.gen = "kicad" /\ res.ok) =>
          \A f \in Tagged(cls, "kicad_kw_bool") :
             AtomCount(expr.items, f) > 0 => res.v.f[f] = VBool(TRUE)

\* a freshly constructed default instance
IsDefault == inst = Make(env, cls, <<>>, <<>>).v

\* C8: for a default instance, the text is parsed and the text written for
\* the parsed instance is the text that was parsed:
\* encode(decode(encode(x))) == encode(x).
C8_DefaultIdempotence ==
    /\ (pc = "parsed" /\ IsDefault) => res.ok
    /\ (pc = "reprinted" /\ IsDefault) => res.v.s = text

C8_Witness ==
    /\ pc = "reprinted"
    /\ cls = "Schematic"
    /\ IsDefault
    /\ res.v.s = text

\* C9: number_to_str(v) is a plain decimal numeral without exponent whose
\* value is v rounded to the nearest multiple of 10^-6, with no trailing
\* zero in the fraction and no trailing point; 1.000 gives "1", 2.342e-6
\* gives "0.000002", 1000 gives "1000".
C9_Canonical ==
    pc = "number" =>
        LET p == ParseNum(text)
            up == (p.ip * Pow10(Precision) + p.micro) - (inst.ip * Pow10(Precision) + inst.micro)
        IN /\ IsNumeral(text)
           /\ p.neg = inst.neg
           /\ p.rem = 0
           /\ up \in {0, 1}
           /\ up = 0 => inst.rem <= 500
           /\ up = 1 => inst.rem >= 500
           /\ IndexOf(text, ".", 1) # 0 => Ch(text, Len(text)) \notin {"0", "."}
           /\ inst = Num(FALSE, 1, 0, 0) => text = "1"
           /\ inst = Num(FALSE, 0, 2, 342) => text = "0.000002"
           /\ inst = Num(FALSE, 1000, 0, 0) => text = "1000"

C9_Witness ==
    /\ pc = "number"
    /\ inst = Num(FALSE, 0, 2, 342)
    /\ text = "0.000002"

\* the parentheses of a text match: none closes before it opens and none
\* stays open, outside quoted strings
RECURSIVE Depths(_, _, _, _)
Depths(s, i, d, inq) ==
    IF i > Len(s) THEN <<d>>
    ELSE IF inq
    THEN Depths(s, i + 1, d, Ch(s, i) # DQ)
    ELSE IF Ch(s, i) = DQ THEN Depths(s, i + 1, d, TRUE)
    ELSE IF Ch(s, i) = "(" THEN <<d + 1>> \o Depths(s, i + 1, d + 1, FALSE)
    ELSE IF Ch(s, i) = ")" THEN <<d - 1>> \o Depths(s, i + 1, d - 1, FALSE)
    ELSE Depths(s, i + 1, d, FALSE)

Unmatched(s) ==
    LET ds == Depths(s, 1, 0, FALSE) IN
    \/ \E i \in 1..Len(ds) : ds[i] < 0
    \/ ds[Len(ds)] # 0

\* C10: from_str_to_list fails with SyntaxError or EOFError on every text
\* whose parentheses do not match, and returns no tree for it.
C10_TokenizerErrors ==
    (pc = "tokenized" /\ Unmatched(text)) =>
        (~res.ok /\ res.err \in {"SyntaxError", "EOFError"})

\* the text stands inside double quotes
InQuotes(s) == Len(s) >= 2 /\ Ch(s, 1) = DQ /\ Ch(s, Len(s)) = DQ

\* C11: from_list_to_str writes a string leaf inside double quotes when it
\* is a QuotedStr, when it is empty, or when it holds a space, parenthesis,
\* double quote, backslash or a listed control character; every other
\* string is written bare.
C11_StringQuoting ==
    pc = "leaf" =>
        IF expr.q \/ expr.s = "" \/ HasCharIn(expr.s, SpecialChars)
        THEN InQuotes(text)
        ELSE text = expr.s

C13_SameInputSameInstance ==
    (pc = "decoded_again" /\ res.ok) => (inst # NoValue /\ fields_equal(res.v, inst))

\* C14: the custom_design_rules context leaves the rules file of the
\* project as it found it: the same text when the file was there, no file
\* when it was not, after the body returned or raised and after an error
\* while the rules were loaded or merged.
C14_RulesFileRestored ==
    pc \in {"left", "raised"} => files.dru = before.dru

\* the context was left by an error of the body after it had copied the
\* custom rules into a project without a rules file
C14_Witness ==
    /\ pc = "left"
    /\ self.custom_rules_path = "custom.kicad_dru"
    /\ files.pro
    /\ files.custom \notin {NoFile, Garbage}
    /\ before.dru = NoFile
    /\ files.dru = NoFile
    /\ ~res.ok

\* how often a violation occurs in a list
Count(vs, v) == Cardinality({i \in 1..Len(vs) : vs[i] = v})

\* the severities that are at or above a level: error above warning above
\* ignore
AtOrAbove(level) ==
    CASE level = "error" -> {"error"}
      [] level = "warning" -> {"error", "warning"}
      [] level = "ignore" -> {"error", "warning", "ignore"}

Rank(severity) ==
    CASE severity = "error" -> 0 [] severity = "warning" -> 1 [] severity = "ignore" -> 2

\* kept holds exactly the violations of all that are at or above the level,
\* each as often as all holds it, with the more severe ones first
KeptAndSorted(kept, all, level) ==
    /\ \A v \in ViolationPool :
          Count(kept, v) = IF v.severity \in AtOrAbove(level) THEN Count(all, v) ELSE 0
    /\ \A i, j \in 1..Len(kept) : i < j => Rank(kept[i].severity) <= Rank(kept[j].severity)

\* C15: a CheckResult built with level L keeps in dr.violations and in the
\* violations of every sheet of the ERC report exactly the violations whose
\* severity is at or above L (error above warning above ignore), sorted by
\* severity with the errors first.
C15_FilteredAndSorted ==
    pc = "checked" =>
        /\ (before.dr = None) = (self.dr = None)
        /\ (before.er = None) = (self.er = None)
        /\ before.dr # None =>
              KeptAndSorted(self.dr.violations, before.dr.violations, before.level)
        /\ before.er # None =>
              /\ Len(self.er.sheets) = Len(before.er.sheets)
              /\ \A i \in 1..Len(before.er.sheets) :
                    KeptAndSorted(self.er.sheets[i].violations,
                                  before.er.sheets[i].violations, before.level)

\* a result whose level dropped a violation of the board report and whose
\* kept violations had to change places
C15_Witness ==
    /\ pc = "checked"
    /\ before.dr # None
    /\ before.level = "warning"
    /\ Len(before.dr.violations) = 3
    /\ Len(self.dr.violations) = 2
    /\ self.dr.violations[1].severity = "error"
    /\ before.dr.violations[1].severity = "warning"

RulesOf(dr) == dr.f.rules.items

\* the index at which a rule equal to r first occurs in rules
FirstAt(rules, r) == Min({i \in 1..Len(rules) : fields_equal(rules[i], r)})

\* new is old without its duplicates: no two rules of new are equal, every
\* rule of old is equal to a rule of new and the other way round, and the
\* rules stand in the order in which they first occur in old
Deduplicated(new, old) ==
    /\ \A i, j \in 1..Len(new) : i # j => ~fields_equal(new[i], new[j])
    /\ \A i \in 1..Len(old) : \E j \in 1..Len(new) : fields_equal(old[i], new[j])
    /\ \A j \in 1..Len(new) : \E i \in 1..Len(old) : fields_equal(old[i], new[j])
    /\ \A i, j \in 1..Len(new) : i < j => FirstAt(old, new[i]) < FirstAt(old, new[j])

\* C16: DesignRules.noramlize removes the duplicates (no two equal rules
\* afterwards, every rule still there once, in the order of first
\* occurrence, and a second call changes nothing); extend(other) appends the
\* rules of other after the rules that were there and leaves other as it was.
C16_NormalizeAndExtend ==
    [][/\ pc' \in {"normalized", "normalized_twice"} =>
             Deduplicated(RulesOf(self'), RulesOf(self))
       /\ pc' = "normalized_twice" => self' = self
       /\ (pc' = "extended" /\ res'.ok) =>
             /\ RulesOf(self') = RulesOf(self) \o RulesOf(that)
             /\ that' = that]_vars

\* rules were extended by rules that held one of theirs, and normalized
\* twice: a duplicate went and two rules stayed
C16_Witness ==
    /\ pc = "normalized_twice"
    /\ that # VNone
    /\ Len(RulesOf(that)) = 2
    /\ Len(RulesOf(before.self)) = 2
    /\ Len(RulesOf(self)) = 2
    /\ RulesOf(self)[1] # RulesOf(that)[1]

DigitLed(n) ==
    /\ IsList(n)
    /\ Len(n.items) > 0
    /\ IsAtom(n.items[1])
    /\ Len(n.items[1].s) > 0
    /\ SubSeq(n.items[1].s, 1, 1) \in {"0", "1", "2", "3", "4", "5", "6", "7", "8", "9"}

\* how many elements stand before the first list that is not led by a digit
Leading(items) ==
    Cardinality({i \in 1..Len(items) :
                    \A j \in 1..i : ~IsList(items[j]) \/ DigitLed(items[j])})

\* the tag of an element after the positional ones, and its occurrence
TagOf(n) == IF IsList(n) THEN n.items[1].s ELSE n.s

Occurrence(n) == IF IsList(n) THEN Tail(n.items) ELSE <<A("true")>>

\* the occurrences of a tag among the later elements, in the order of the
\* input
OccurrencesOf(items, tag) ==
    LET at == {i \in (Leading(items) + 1)..Len(items) : TagOf(items[i]) = tag} IN
    [k \in 1..Cardinality(at) |->
        Occurrence(items[CHOOSE i \in at : Cardinality({j \in at : j <= i}) = k])]

\* C18: _split_args partitions its list without loss: the positional args
\* are the leading elements before the first list that does not start with a
\* digit, every later element is one occurrence under its leading tag (a
\* later bare atom the occurrence ["true"] under its own name), occurrences
\* of one tag keep the order of the input, and len(args) plus the number of
\* occurrences is len(expr).
C18_SplitPartition ==
    (pc = "split" /\ env.gen = "kicad" /\ res.ok) =>
        /\ res.v.args = SubSeq(expr.items, 1, Leading(expr.items))
        /\ DOMAIN res.v.occ =
              {TagOf(expr.items[i]) : i \in (Leading(expr.items) + 1)..Len(expr.items)}
        /\ \A tag \in DOMAIN res.v.occ :
              res.v.occ[tag] = OccurrencesOf(expr.items, tag)
        /\ Len(res.v.args)
              + Cardinality({p \in (DOMAIN res.v.occ) \X (1..Len(expr.items)) :
                                p[2] <= Len(res.v.occ[p[1]])})
              = Len(expr.items)

\* a list split into two different occurrences of one tag, kept in the order
\* of the input, and a bare atom between them
C18_Witness ==
    /\ pc = "split"
    /\ env.gen = "kicad"
    /\ res.ok
    /\ expr.items = <<G("font", <<G("bar", <<A("1")>>)>>), A("hide"),
                      G("font", <<G("size", <<A("1"), A("2")>>), A("italic")>>)>>
    /\ res.v.args = <<>>
    /\ res.v.occ["font"] = << <<G("bar", <<A("1")>>)>>,
                              <<G("size", <<A("1"), A("2")>>), A("italic")>> >>
    /\ res.v.occ["hide"] = << <<A("true")>> >>

\* the elements after the positional ones that are groups tagged with name
GroupsOf(items, name) ==
    {i \in (Leading(items) + 1)..Len(items) :
        /\ IsList(items[i])
        /\ Len(items[i].items) > 0
        /\ IsAtom(items[i].items[1])
        /\ items[i].items[1].s = name}

\* a keyword field that _parse_field hands to _parse_as as it is
PlainKeyword(f) ==
    f.meta \cap {"kicad_no_kw", "kicad_kw_bool", "kicad_kw_bool_empty",
                 "kicad_bool_yes_no"} = {}

IsRecordField(f) == PlainKeyword(f) /\ f.ty.k = "rec"

IsAtomicField(f) ==
    PlainKeyword(f) /\ f.ty.k \in {"int", "float", "str", "bool", "uuid", "enum", "literal"}

\* the groups of items tagged with the name of f do not give f one value
BadArity(f, items) ==
    LET at == GroupsOf(items, f.name) IN
    \/ (IsRecordField(f) \/ IsAtomicField(f)) /\ Cardinality(at) > 1
    \/ IsAtomicField(f) /\ \E i \in at : Len(items[i].items) # 2

\* C19: a field of nested record type or of primitive, enum or literal type
\* that is given several keyword groups with its tag, or one group holding
\* zero or several atoms, makes from_list fail: the decoder never silently
\* keeps one of several values.
C19_ArityEnforced ==
    pc = "decoded" =>
        \A i \in 1..Len(Fields(cls)) :
            BadArity(Fields(cls)[i], expr.items) => ~res.ok

\* an element of an argument list that is the atom name or a group tagged
\* with name
Names(n, name) ==
    \/ IsAtom(n) /\ n.s = name
    \/ /\ IsList(n)
       /\ Len(n.items) > 0
       /\ IsAtom(n.items[1])
       /\ n.items[1].s = name

\* C20: to_list emits nothing for a field whose value is None or an empty
\* sequence, for lists of records and for lists of primitive values alike:
\* no atom and no group tagged with the name of the field is in the output.
C20_EmptyEmitsNothing ==
    pc = "encoded" =>
        \A i \in 1..Len(Fields(cls)) :
            LET f == Fields(cls)[i] IN
            inst.f[f.name] \in {VNone, VSeq(<<>>)} =>
                \A j \in 1..Len(expr.items) : ~Names(expr.items[j], f.name)

\* the field without its kicad_omits_default tag
Untagged(f) == [f EXCEPT !.meta = @ \ {"kicad_omits_default"}]

\* what a field gives to the output when kicad_omits_default means: nothing
\* for a value equal to the default, else the shape of the field without the
\* tag
OmittingDefault(f, v) ==
    IF get_meta(f, "kicad_omits_default") /\ PyEq(v, f.def) THEN <<>>
    ELSE _serialize_field(Untagged(f), v)

OmitsFields(c) ==
    {i \in 1..Len(Fields(c)) : get_meta(Fields(c)[i], "kicad_omits_default")}

\* C21: a field tagged kicad_omits_default is left out of the output of
\* to_list exactly when its value equals the declared default of the field;
\* every other value is emitted in the normal shape of the field, also when
\* the field carries a second tag such as kicad_bool_yes_no or kicad_no_kw.
C21_OmitsDefault ==
    pc = "encoded" =>
        expr.items =
            Concat([i \in 1..Len(Fields(cls)) |->
                       OmittingDefault(Fields(cls)[i], inst.f[Fields(cls)[i].name])] \o <<>>)

\* a stackup with one yes/no flag set and one at its default
C21_Witness ==
    /\ pc = "encoded"
    /\ cls = "Stackup"
    /\ inst.f.dielectric_constraints = VBool(TRUE)
    /\ inst.f.castellated_pads = VBool(FALSE)
    /\ expr.items = <<G("dielectric_constraints", <<A("yes")>>)>>

\* the fields of class c tagged kicad_kw_bool_empty
EmptyFlags(c) ==
    {Fields(c)[i].name : i \in {j \in 1..Len(Fields(c)) :
                                    get_meta(Fields(c)[j], "kicad_kw_bool_empty")}}

\* C22: a field tagged kicad_kw_bool_empty is encoded as the empty group
\* [field_name] when true and as nothing when false; decoding exactly one
\* empty group with that tag yields true, and a group with that tag that has
\* a body, or a repeated group, makes from_list raise.
C22_EmptyFlag ==
    /\ pc = "listed" =>
          \A n \in EmptyFlags(cls) :
             /\ Cardinality({j \in 1..Len(expr.items) : expr.items[j] = G(n, <<>>)})
                   = IF inst.f[n].b THEN 1 ELSE 0
             /\ \A j \in 1..Len(expr.items) :
                   Names(expr.items[j], n) => expr.items[j] = G(n, <<>>)
    /\ pc = "decoded" =>
          \A n \in EmptyFlags(cls) :
             LET at == GroupsOf(expr.items, n) IN
             /\ (res.ok /\ at # {}) => res.v.f[n] = VBool(TRUE)
             /\ (\/ Cardinality(at) > 1
                 \/ \E i \in at : Len(expr.items[i].items) > 1) => ~res.ok

\* a via decoded from one empty group and encoded again with the group
C22_Witness ==
    /\ pc = "listed"
    /\ cls = "Via"
    /\ inst.f.free = VBool(TRUE)
    /\ inst.f.remove_unused_layers = VBool(FALSE)
    /\ \E j \in 1..Len(expr.items) : expr.items[j] = G("free", <<>>)

\* the names of the fields of class c tagged kicad_kw_bool
Flags(c) ==
    {Fields(c)[i].name : i \in {j \in 1..Len(Fields(c)) :
                                    get_meta(Fields(c)[j], "kicad_kw_bool")}}

\* the positional args of an argument list: the leading elements
Positional(items) == SubSeq(items, 1, Leading(items))

\* the positional args that are no bare flag of class c, in order
Values(c, items) ==
    LET args == Positional(items)
        at == {i \in 1..Len(args) : ~(IsAtom(args[i]) /\ ~args[i].q /\ args[i].s \in Flags(c))}
    IN [k \in 1..Cardinality(at) |->
           args[CHOOSE i \in at : Cardinality({j \in at : j <= i}) = k]]

\* the fields of class c tagged kicad_no_kw, in the order of the declaration
PositionalFields(c) ==
    LET at == {i \in 1..Len(Fields(c)) : get_meta(Fields(c)[i], "kicad_no_kw")} IN
    [k \in 1..Cardinality(at) |->
        Fields(c)[CHOOSE i \in at : Cardinality({j \in at : j <= i}) = k]]

\* an atom quoted in the text that is named like a flag of class c
QuotedFlag(c, n) == IsAtom(n) /\ n.q /\ n.s \in Flags(c)

\* C23: from_list assigns the positional args to the kicad_no_kw fields in
\* the order of the declaration, skipping the keyword and boolean-keyword
\* fields declared between them: for FootprintText (type, locked, text) the
\* args ["user", "abc"] give type "user" and text "abc", and locked stays
\* false.
C23_PositionalOrder ==
    (/\ pc = "decoded"
     /\ cls = "FootprintText"
     /\ \A i \in 1..Len(expr.items) : ~QuotedFlag(cls, expr.items[i])
     /\ Leading(expr.items) = Len(expr.items)
     /\ Len(Values(cls, expr.items)) \in 1..Len(PositionalFields(cls))
     /\ Values(cls, expr.items)[1] = A("user")
     /\ \A n \in Flags(cls) :
           Cardinality({i \in 1..Len(expr.items) : expr.items[i] = A(n)}) <= 1) =>
        /\ res.ok
        /\ \A k \in 1..Len(Values(cls, expr.items)) :
              res.v.f[PositionalFields(cls)[k].name] = VStr(Values(cls, expr.items)[k].s)
        /\ \A n \in Flags(cls) :
              res.v.f[n] = VBool(\E i \in 1..Len(expr.items) : expr.items[i] = A(n))

\* C24: from_list takes a positional element for a boolean-keyword flag only
\* when it is a bare atom equal to the name of the field: a quoted string
\* that equals the name of such a field stays a positional value, is not
\* removed from the args and does not set the flag.
C24_QuotedIsNoFlag ==
    (pc = "decoded" /\ env.gen = "kicad" /\ res.ok) =>
        \A n \in Flags(cls) :
            (\A i \in 1..Len(expr.items) : expr.items[i] # A(n)) =>
                res.v.f[n] = VBool(FALSE)

\* the atom of items that is one of names, else the atom center
AtomAmong(items, names) ==
    IF \E i \in 1..Len(items) : items[i].s \in names
    THEN VStr(items[CHOOSE i \in 1..Len(items) : items[i].s \in names].s)
    ELSE VStr("center")

\* a list of different bare atoms, at most one for the horizontal and one for
\* the vertical side
JustifyAtoms(items) ==
    /\ \A i \in 1..Len(items) :
          items[i] \in {A("left"), A("right"), A("top"), A("bottom"), A("mirror")}
    /\ \A i, j \in 1..Len(items) : i # j => items[i] # items[j]
    /\ Cardinality({i \in 1..Len(items) : items[i].s \in {"left", "right"}}) <= 1
    /\ Cardinality({i \in 1..Len(items) : items[i].s \in {"top", "bottom"}}) <= 1

\* C25: decoding a Justify does not depend on the order of the atoms: every
\* permutation of the same atoms among left, right, top, bottom and mirror
\* gives the instance with horizontal and vertical set from the matching
\* atoms (center when there is none) and mirror true exactly when the atom
\* mirror is present.
C25_JustifyAnyOrder ==
    (pc = "decoded" /\ cls = "Justify" /\ JustifyAtoms(expr.items)) =>
        /\ res.ok
        /\ res.v.f.horizontal = AtomAmong(expr.items, {"left", "right"})
        /\ res.v.f.vertical = AtomAmong(expr.items, {"top", "bottom"})
        /\ res.v.f.mirror = VBool(\E i \in 1..Len(expr.items) : expr.items[i] = A("mirror"))

\* the entries of a value given for layers: those of a list, or the one str
Entries(v) == IF v.k = "str" THEN {v} ELSE {v.items[i] : i \in 1..Len(v.items)}

\* C26: after a Zone is constructed its layers list contains every layer the
\* zone was given: the value of layer when layer is not None, and every
\* entry that was passed in layers.
C26_ZoneLayers ==
    pc = "zone" =>
        /\ before.layer # VNone => before.layer \in Entries(self.layers)
        /\ Entries(before.layers) \subseteq Entries(self.layers)

\* the path is one add_sub_schematic of schematic_group.py has to refuse
Refused(g, path) ==
    \/ is_absolute(path)
    \/ \E i \in 1..Len(Parts(path)) : Parts(path)[i] = ".."
    \/ path = g.top_level.filepath
    \/ \E i \in 1..Len(g.sub_schematics) : g.sub_schematics[i].filepath = path

\* C27: in add_sub_schematic of schematic_group.py an output path that is
\* absolute, contains "..", equals the path of the top-level file or the path
\* of a sub-schematic of the group raises ValueError, and the failed call
\* leaves the group as it was: no sheet is appended, no sub-schematic is
\* added and the symbols of the passed schematic are not modified.
C27_RefusedPathChangesNothing ==
    (/\ pc = "group"
     /\ self.gen = "module"
     /\ before.calls > 0
     /\ Refused(that.group, that.path)) =>
        /\ ~res.ok
        /\ res.err = "ValueError"
        /\ self = that.group
        /\ that.after = that.sch

\* the second call with a path, refused, with a schematic that has a symbol
C27_Witness ==
    /\ pc = "group"
    /\ self.gen = "module"
    /\ before.calls = 2
    /\ that.path = "test.kicad_sch"
    /\ Len(that.group.sub_schematics) = 1
    /\ that.group.sub_schematics[1].filepath = "test.kicad_sch"
    /\ Len(that.sch.symbols) = 1
    /\ ~res.ok
    /\ Len(self.top_level.sheets) = Len(that.group.top_level.sheets)

\* C28: when two custom_design_rules contexts for one project directory
\* overlap in time, the rules file of the project is, after both have
\* exited, as it was before either started: the same text when it was
\* there, no file when it was not.
C28_OverlapRestores ==
    (/\ pc = "overlap"
     /\ that
     /\ \A p \in Contexts : self[p].at \in {"left", "raised"})
        => files.dru = before.dru

\* C29: number_to_str gives one text per rendered value: every value that
\* rounds to zero at six fraction digits (0, 0.0, -0.0, 0.0000001,
\* -0.0000001) is rendered as "0", and the output is never a negative zero
\* such as "-0".
C29_ZeroIsCanonical ==
    pc = "number" =>
        /\ RoundedMicros(inst) = 0 => text = "0"
        /\ text # "-0"

\* the fields of class c tagged kicad_bool_yes_no
YesNoFields(c) ==
    {Fields(c)[i].name : i \in {j \in 1..Len(Fields(c)) :
                                    get_meta(Fields(c)[j], "kicad_bool_yes_no")}}

\* the occurrences are the single group ["yes"]
OnlyYes(occ) ==
    /\ Len(occ) = 1
    /\ Len(occ[1]) = 1
    /\ IsAtom(occ[1][1])
    /\ occ[1][1].s = "yes"

\* every element of items is a group or a later bare atom tagged with a
\* kicad_bool_yes_no field of class c
AllYesNo(c, items) ==
    /\ Leading(items) = 0
    /\ \A i \in 1..Len(items) : TagOf(items[i]) \in YesNoFields(c)

\* C30: decoding a kicad_bool_yes_no field never raises by itself: the
\* field is true exactly when its occurrences are the single group ["yes"]
\* and false for every other body ("no", another atom, an empty group,
\* several atoms, several occurrences of the keyword).
C30_YesNoNeverRaises ==
    (pc = "decoded" /\ YesNoFields(cls) # {}) =>
        /\ AllYesNo(cls, expr.items) => res.ok
        /\ res.ok =>
              \A n \in YesNoFields(cls) :
                 OccurrencesOf(expr.items, n) # <<>> =>
                    res.v.f[n] = VBool(OnlyYes(OccurrencesOf(expr.items, n)))

\* a stackup decoded from two occurrences of dielectric_constraints, the
\* first of them ["yes"], and an empty group of edge_plating
C30_Witness ==
    /\ pc = "decoded"
    /\ cls = "Stackup"
    /\ expr.items = <<G("dielectric_constraints", <<A("yes")>>),
                      G("dielectric_constraints", <<>>),
                      G("castellated_pads", <<A("yes")>>)>>
    /\ res.ok
    /\ res.v.f.dielectric_constraints = VBool(FALSE)
    /\ res.v.f.castellated_pads = VBool(TRUE)

====
